---- MODULE Spec2Model ----
(***************************************************************************)
(* The trading tick of api-worker/src/index.ts (vibeTick) and the ledger   *)
(* it keeps in the key-value store, as a state machine.                    *)
(*                                                                         *)
(* Units.  Time is counted in minutes (the code counts milliseconds; all   *)
(* of its windows are whole minutes, and the comparisons keep their        *)
(* strictness).  A quantity is an integer number of base units of 0.0001   *)
(* coin (the code's fallback step and minimum quantity), a price is an     *)
(* integer number of USD per base unit, so quantity * price is a notional  *)
(* in USD.  The code computes in IEEE doubles; the model is exact except  *)
(* for Math.floor(q / step), whose double quotient falls just under the   *)
(* whole number for the quantities tabulated in ShortQuotients.           *)
(***************************************************************************)
EXTENDS Integers, Sequences, FiniteSets, TLC

\* ---------------------------------------------------------------- bounds
MaxClock == 5
ClockStep == 4
MaxTicks == 1
MaxOverlap == 2
MaxAppends == 3
LedgerSlack == 2
MaxOpens == 2
MaxAdmin == 1
MaxFlatTicks == 3
StatusClock == 7
MaxRequests == 3
MaxSamples == 2
SampleSlack == 1

\* ------------------------------------------------------ program constants
MaxAttempts == 8
ClosedCapacity == 2000
MinNotionalUsd == 10
CooldownMin == 3
LossWindowMin == 30
LossLookback == 10
LossCountMin == 4
LossTotalUsd == 150
EquityCapacity == 40320
DefaultMaxRisk == 1500
DefaultMaxLoss == 200
MinQty == 1
DefaultStep == 1
DayMinutes == 1440
Absent == -1
LogCapacity == 500
RecentWindowMin == 3
MinStatusIntervalMin == 5
HashCapacity == 12

Procs == {"http", "cron"}
UniverseSeq == <<"BTCUSDT", "ETHUSDT">>
Universe == {UniverseSeq[i] : i \in 1..Len(UniverseSeq)}
OtherSymbol == "LTCUSDT"
\* The secret the deployment sets as ADMIN_KEY, and another string.
AdminKey == "k1"
WrongKey == "k2"

\* What the environment may answer.
Prices == {9, 10, 11}
Equities == {0, 40}
\* The LOT_SIZE step and the MIN_NOTIONAL filter the exchange lists.
ExInfo == [s \in Universe |->
             IF s = "BTCUSDT" THEN [step |-> 2, minNotional |-> Absent]
                              ELSE [step |-> 1, minNotional |-> 30]]
\* stepSizeForSymbol (1980-1989) for a symbol the exchange does not list.
Unlisted == [step |-> DefaultStep, minNotional |-> Absent]
\* The bodies an admin sends to /api/vibe/run: both caps overridden, the risk
\* cap over or under the 10 USD an order needs, the loss cap written as a
\* loss of 2 USD either way (2, or -2).
\* line 487: the body {} of a request that carries none, or none that parses.
NoBody == [maxRiskPerTradeUsd |-> Absent, maxLossPerTradeUsd |-> Absent,
           marginMode |-> "none"]
RunBodies == {[NoBody EXCEPT !.maxRiskPerTradeUsd = 20, !.maxLossPerTradeUsd = 2],
              [NoBody EXCEPT !.maxRiskPerTradeUsd = 9, !.maxLossPerTradeUsd = -2]}

\* The exchange settings of a deployment (Env, lines 8-9 and the API key and
\* secret): whether ASTER_API_BASE, ASTER_PRIVATE_KEY, ASTER_API_KEY and
\* ASTER_API_SECRET are set.
Deploys == [base : BOOLEAN, priv : BOOLEAN, apiKey : BOOLEAN, apiSecret : BOOLEAN]
FullDeploy == [base |-> TRUE, priv |-> TRUE, apiKey |-> TRUE, apiSecret |-> TRUE]

\* ------------------------------------------------------------- helpers
Max(a, b) == IF a >= b THEN a ELSE b
Min(a, b) == IF a <= b THEN a ELSE b
Abs(a) == IF a >= 0 THEN a ELSE 0 - a
CeilDiv(a, b) == (a + b - 1) \div b

\* An absent map entry (the key is not in the JSON object).
NoTrade == [symbol |-> "none", side |-> "none", qty |-> 0, entryPrice |-> 0,
            notionalEntry |-> 0, openedAt |-> 0, stopLoss |-> Absent,
            takeProfit |-> Absent, minHoldMs |-> Absent]
\* callLLMDecider's answer before any plan was obtained.
NoPlan == [ok |-> FALSE, action |-> "none", symbol |-> "none",
           stopLoss |-> Absent, takeProfit |-> Absent, minHoldMs |-> Absent]
NoClose == [sym |-> "none", t |-> NoTrade, price |-> 0, at |-> 0, reason |-> "",
            step |-> 0, attempts |-> 0, totalQtyClosed |-> 0,
            sumNotionalExit |-> 0, lastExitPrice |-> 0, side |-> "none",
            qty |-> 0, final |-> "none", finalAmt |-> 0]
NoOrder == [symbol |-> "none", side |-> "none", sizeUsd |-> 0, at |-> 0,
            price |-> 0, qty |-> 0, sent |-> FALSE, ok |-> FALSE]
NoRuntime == [lastTickAt |-> 0, lastError |-> "none", lastOrderAt |-> 0,
              lastSignal |-> "none"]
NoAcct == [equityUsd |-> 0, availableBalance |-> 0, nowTs |-> 0]
\* /vibe_last_status.json before the first status (line 865: || {}).
NoLast == [at |-> 0, equityUsd |-> 0, hashes |-> <<>>]
\* lastOutput before the status step (line 776).  With the output the model
\* keeps the step's nowTs, eq and summary.
NoOutput == [type |-> "none", skipped |-> FALSE, at |-> 0, equityUsd |-> 0,
             summary |-> "none"]
\* The entries of the log list: a status of the narrator (lines 880-881, 891-892) and
\* a status of the admin handlers (lines 502, 517); appendLog adds the time.
StatusEntry(at, eq, summary) ==
  [type |-> "vibe_status", at |-> at, equityUsd |-> eq, summary |-> summary,
   status |-> "none"]
AdminEntry(at, status) ==
  [type |-> "vibe_status", at |-> at, equityUsd |-> Absent, summary |-> "none",
   status |-> status]
\* A list of equity samples, as the JSON array of a key holds it.  The samples
\* a long run of ticks left, one a minute with one equity, are kept as that
\* run (its first minute, its length, its equity); the samples after the run
\* are kept one by one in tail.
NoSeries == [runFrom |-> 0, runLen |-> 0, runEquity |-> 0, tail |-> <<>>]
SeriesLen(l) == l.runLen + Len(l.tail)
SeriesAt(l, i) ==
  IF i <= l.runLen THEN [at |-> l.runFrom + i - 1, equityUsd |-> l.runEquity]
                   ELSE l.tail[i - l.runLen]
SeriesLast(l) == SeriesAt(l, SeriesLen(l))
\* list.push(sample)
SeriesPush(l, sample) == [l EXCEPT !.tail = Append(@, sample)]
\* list.splice(0, k)
SeriesDropFront(l, k) ==
  IF k < l.runLen THEN [l EXCEPT !.runFrom = @ + k, !.runLen = @ - k]
  ELSE [NoSeries EXCEPT !.tail = SubSeq(l.tail, k - l.runLen + 1, Len(l.tail))]
\* The list of the samples of a sequence.
SeriesOf(seq) == [NoSeries EXCEPT !.tail = seq]

\* /vibe_chart_anchor.json when the key is not set: at and equityUsd read 0
\* (lines 2012-2013).
NoAnchor == [at |-> 0, equityUsd |-> 0]

\* No computation was looked at yet.  calc holds the arguments and the
\* result of the latest computation a specification looks at on its own.
NoCalc == [fn |-> "none"]
\* The answers of the admin handlers.
Forbidden == [status |-> 403, ok |-> FALSE, error |-> "forbidden"]
Accepted == [status |-> 200, ok |-> TRUE, error |-> "none"]
\* No admin request was answered yet.  resp is the x-admin-key header of the
\* latest admin request, the body the handler read and the answer it got.
NoResponse == [key |-> "", body |-> NoBody,
               answer |-> [status |-> 0, ok |-> FALSE, error |-> "none"]]
DefaultConfig == [status |-> "running", maxRiskPerTradeUsd |-> DefaultMaxRisk,
                  maxLossPerTradeUsd |-> DefaultMaxLoss, marginMode |-> "cross"]

\* line 234 (and 177, 693, 716): the signed calls need the base, the key and
\* the secret.
HasApi(d) == d.base /\ d.apiKey /\ d.apiSecret

\* A signed post that goes out whatever is configured.
SignedPostAlwaysSent(d) == "sent"

\* asterFapiSignedPost, lines 230-248: the 400 response of line 234, or the
\* request is sent.
SignedPost(d) == IF HasApi(d) THEN "sent" ELSE "400"

\* asterRequest, lines 77-163: the throw of line 80, a request signed with
\* the wallet key or with the API key and secret, or the 400 of line 162.
AsterRequest(d) ==
  IF ~d.base THEN "throw"
  ELSE IF d.priv THEN "sent"
  ELSE IF d.apiKey /\ d.apiSecret THEN "sent"
  ELSE "400"

\* asterFapiGetPublicJson, lines 188-194: without the base the answer is null.
PublicPrices(e) == IF e.deploy.base THEN e.prices \cup {0} ELSE {0}

\* getExchangeInfo and stepSizeForSymbol (1976-1989): the symbol's filters, or
\* the fallback when the exchange's list is not to be had.
SymbolInfos(e, sym) == IF e.deploy.base THEN {ExInfo[sym], Unlisted} ELSE {Unlisted}

\* asterFapiGetJson, lines 173-186, for /fapi/v2/account: null without the
\* signed API, and then the equity and the balance read 0 (lines 583-586).
AccountEquities(e) == IF HasApi(e.deploy) THEN e.equities ELSE {0}

VARIABLES env, now, cfg, kvRt, kvOpen, kvClosed, kvEquity, kvDay, exPos,
          ticks, opens, admins,
          pc, tcfg, rt, acct, openMap, todo, cur, plan, ord, clist, elist, result,
          kvLast, kvLogs, lastOutput, resp, calc

kv == <<cfg, kvRt, kvOpen, kvClosed, kvEquity, kvDay>>
counters == <<ticks, opens, admins>>
locals == <<tcfg, rt, acct, openMap, todo, cur, plan, ord, clist, elist, result>>
\* The keys of the status step and the log list, as far as the status step
\* and the admin handlers write it (a tick's other log entries are left out:
\* no step of the worker reads them back).
desk == <<kvLast, kvLogs, lastOutput, resp, calc>>
vars == <<env, now, kv, exPos, counters, pc, locals, desk>>

EmptyMap == [s \in Universe |-> NoTrade]

\* The scheduled trigger calls vibeTick(env, url, true); the HTTP one does not.
IgnoreStatus(p) == p = "cron"

\* vibeTick, lines 570-588: read the configuration and the runtime record,
\* return early when stopped, take the account snapshot.
\* A tick that goes to the oracle first.
FirstStepDecides == "decide"

\* lines 634-636: the enforcement pass is the first step of a tick once the
\* account and the market were read.
FirstStep == "enforce_read"

TickStart(p) ==
  /\ pc[p] = "idle"
  /\ ticks < env.ticks
  /\ ticks' = ticks + 1
  /\ tcfg' = [tcfg EXCEPT ![p] = cfg]
  /\ rt' = [rt EXCEPT ![p] = kvRt]
  /\ IF cfg.status # "running" /\ ~IgnoreStatus(p)
       THEN /\ pc' = [pc EXCEPT ![p] = "done"]
            /\ result' = [result EXCEPT ![p] = "skipped"]
            /\ UNCHANGED acct
       ELSE /\ pc' = [pc EXCEPT ![p] = FirstStep]
            /\ result' = [result EXCEPT ![p] = "none"]
            /\ \E e \in AccountEquities(env) :
                 acct' = [acct EXCEPT ![p] = [NoAcct EXCEPT !.equityUsd = e,
                                                     !.availableBalance = e]]
  /\ UNCHANGED <<env, desk, now, kv, exPos, opens, admins, openMap, todo, cur, plan, ord, clist, elist>>

\* ------------------------------------------- enforcement pass (634-746)
\* line 641
MinHoldOk(t, at) ==
  IF t.minHoldMs # Absent THEN at - t.openedAt >= t.minHoldMs ELSE TRUE

\* lines 648-652
StopLossHit(t, price) ==
  /\ t.stopLoss # Absent
  /\ \/ t.side = "LONG" /\ price <= t.stopLoss
     \/ t.side = "SHORT" /\ price >= t.stopLoss

\* The target looked at without the minimum hold.
TakeProfitHitAnyTime(t, price, at) ==
  /\ t.takeProfit # Absent
  /\ \/ t.side = "LONG" /\ price >= t.takeProfit
     \/ t.side = "SHORT" /\ price <= t.takeProfit

\* lines 654-658, without the !shouldClose guard (CloseReason orders the checks)
TakeProfitHit(t, price, at) ==
  /\ MinHoldOk(t, at)
  /\ t.takeProfit # Absent
  /\ \/ t.side = "LONG" /\ price >= t.takeProfit
     \/ t.side = "SHORT" /\ price <= t.takeProfit

\* line 661
PnlNow(t, price) ==
  IF t.side = "LONG" THEN (price - t.entryPrice) * t.qty
                     ELSE (t.entryPrice - price) * t.qty

\* lines 660-665
MaxLossHit(c, t, price) ==
  /\ c.maxLossPerTradeUsd > 0
  /\ PnlNow(t, price) <= 0 - Abs(c.maxLossPerTradeUsd)

\* The checks as the older worker (unnamed/part_003) orders them: the stop
\* is looked at only once the minimum hold has elapsed.
CloseReasonAfterHold(c, t, price, at) ==
  IF MinHoldOk(t, at) /\ StopLossHit(t, price) THEN "Stop-loss hit"
  ELSE IF TakeProfitHit(t, price, at) THEN "Take-profit hit"
  ELSE IF MaxLossHit(c, t, price) THEN "Max loss hit"
  ELSE ""

\* lines 645-665: the reason of the close, "" when shouldClose stays false.
\* (The code's third reason also spells the cap: 'Max loss -200 hit'.)
CloseReason(c, t, price, at) ==
  IF StopLossHit(t, price) THEN "Stop-loss hit"
  ELSE IF TakeProfitHit(t, price, at) THEN "Take-profit hit"
  ELSE IF MaxLossHit(c, t, price) THEN "Max loss hit"
  ELSE ""

\* The quantities q, in base units, for which the double q / 10000 divided
\* by the double step / 10000 comes out under the whole number q \div step:
\* 0.0003 / 0.0001 is 2.9999999999999996 in IEEE-754 binary64, and
\* 1.0005 / 0.0001 is 10004.999999999998.  Listed for the steps 0.0001 and
\* 0.0002 and the quantities up to 64 and from 10000 to 10008; no quotient
\* of these comes out over its whole number.
ShortQuotients ==
  [step \in {1, 2} |->
     IF step = 1
       THEN {3, 6, 12, 13, 21, 24, 26, 29, 31, 39, 42, 45, 48, 49, 52, 55, 58,
             59, 62, 10004, 10005, 10006, 10007, 10008}
       ELSE {6, 12, 24, 26, 42, 48, 52, 58, 62, 10004, 10006, 10008}]

\* Math.floor(q / step) of lines 699 and 944, on doubles.
FloorQuot(q, step) ==
  IF step \in DOMAIN ShortQuotients /\ q \in ShortQuotients[step]
    THEN (q \div step) - 1
    ELSE q \div step

\* lines 699-700 (and 944-945): round down to the step, at least one step.
Quantize(qtyRaw, step) == Max(1, FloorQuot(qtyRaw, step)) * step

\* The test of line 721 without its first half: any booked fill records.
ShouldRecordCloseAnyFill(finalAmt, totalQtyClosed) ==
  totalQtyClosed > 0

\* line 721
ShouldRecordClose(finalAmt, totalQtyClosed) ==
  Abs(finalAmt) <= 0 /\ totalQtyClosed > 0

\* The record with its profit taken over the position's quantity.
LoopClosedTradeHeldQty(c) ==
  [symbol |-> c.sym, side |-> c.t.side, qty |-> c.totalQtyClosed,
   entryPrice |-> c.t.entryPrice,
   exitPrice |-> [num |-> c.sumNotionalExit, den |-> c.totalQtyClosed],
   notionalEntry |-> c.t.entryPrice * c.totalQtyClosed,
   notionalExit |-> c.sumNotionalExit,
   openedAt |-> c.t.openedAt, closedAt |-> c.at,
   holdingMs |-> Max(0, c.at - c.t.openedAt),
   pnlUsd |-> IF c.t.side = "LONG"
                THEN (c.sumNotionalExit - c.t.entryPrice * c.totalQtyClosed)
                       * c.t.qty
                ELSE (c.t.entryPrice * c.totalQtyClosed - c.sumNotionalExit)
                       * c.t.qty]

\* lines 722-739: the ClosedTrade of the close loop.  exitPrice is the
\* quotient sumNotionalExit / totalQtyClosed, kept as a fraction.
LoopClosedTrade(c) ==
  [symbol |-> c.sym, side |-> c.t.side, qty |-> c.totalQtyClosed,
   entryPrice |-> c.t.entryPrice,
   exitPrice |-> [num |-> c.sumNotionalExit, den |-> c.totalQtyClosed],
   notionalEntry |-> c.t.entryPrice * c.totalQtyClosed,
   notionalExit |-> c.sumNotionalExit,
   openedAt |-> c.t.openedAt, closedAt |-> c.at,
   holdingMs |-> Max(0, c.at - c.t.openedAt),
   pnlUsd |-> IF c.t.side = "LONG"
                THEN c.sumNotionalExit - c.t.entryPrice * c.totalQtyClosed
                ELSE c.t.entryPrice * c.totalQtyClosed - c.sumNotionalExit]

\* A list cut at the back: the newest entries go.
AppendClosedCutBack(list, trade) ==
  LET l == Append(list, trade)
  IN IF Len(l) > ClosedCapacity THEN SubSeq(l, 1, ClosedCapacity) ELSE l

\* appendClosedTrade, lines 466-468: push, then drop from the front.
AppendClosed(list, trade) ==
  LET l == Append(list, trade)
  IN IF Len(l) > ClosedCapacity
       THEN SubSeq(l, Len(l) - ClosedCapacity + 1, Len(l))
       ELSE l

OpenSymbols(m) == {s \in Universe : m[s] # NoTrade}

\* lines 636-637
EnforceRead(p) ==
  /\ pc[p] = "enforce_read"
  /\ openMap' = [openMap EXCEPT ![p] = kvOpen]
  /\ todo' = [todo EXCEPT ![p] = OpenSymbols(kvOpen)]
  /\ pc' = [pc EXCEPT ![p] = "enforce"]
  /\ UNCHANGED <<env, desk, now, kv, exPos, counters, tcfg, rt, acct, cur, plan, ord, clist, elist, result>>

\* An exception inside the pass leaves it through the catch of line 746.
AbortEnforce(p) ==
  /\ pc' = [pc EXCEPT ![p] = "decide"]
  /\ todo' = [todo EXCEPT ![p] = {}]
  /\ cur' = [cur EXCEPT ![p] = NoClose]
  /\ openMap' = [openMap EXCEPT ![p] = EmptyMap]

\* The loop moves on to the next symbol; the iteration's locals stay as c
\* until the next iteration sets them.
NextSymbol(p, c) ==
  /\ pc' = [pc EXCEPT ![p] = "enforce"]
  /\ todo' = [todo EXCEPT ![p] = todo[p] \ {c.sym}]
  /\ cur' = [cur EXCEPT ![p] = c]

\* lines 638-680: one iteration up to the close loop.  The ticker answers a
\* price, nothing usable (0), or the request throws.
EnforceSym(p) ==
  /\ pc[p] = "enforce"
  /\ \/ /\ todo[p] = {}
        /\ AbortEnforce(p)
     \/ /\ todo[p] # {}
        /\ AbortEnforce(p)
     \/ \E sym \in todo[p], price \in PublicPrices(env) :
        \E info \in SymbolInfos(env, sym) :
          LET t == openMap[p][sym]
              reason == IF price = 0 THEN "" ELSE CloseReason(tcfg[p], t, price, now)
              c == [NoClose EXCEPT !.sym = sym, !.t = t, !.price = price,
                                   !.at = now, !.reason = reason]
          IN /\ UNCHANGED openMap
             /\ IF reason = ""
                  THEN NextSymbol(p, c)
                  ELSE /\ pc' = [pc EXCEPT ![p] = "close_poll"]
                       /\ cur' = [cur EXCEPT ![p] = [c EXCEPT !.step = info.step]]
                       /\ UNCHANGED todo
  /\ UNCHANGED <<env, desk, now, kv, exPos, counters, tcfg, rt, acct, plan, ord, clist, elist, result>>

\* A loop that goes on polling whatever the exchange reports.
ReportsFlatNever(listed, amt) == FALSE

\* line 696: the loop breaks when the exchange lists no position for the
\* symbol or reports a zero positionAmt.
ReportsFlat(listed, amt) == ~listed \/ Abs(amt) <= 0

\* An order for the ledger's position: its side and its quantity.
ReduceOrderOfLedger(c, amt) ==
  [c EXCEPT !.side = IF c.t.side = "LONG" THEN "SELL" ELSE "BUY",
            !.qty = Quantize(c.t.qty, c.step)]

\* lines 697-700: the reduce-only order of an attempt, from the positionAmt
\* the exchange reported.
ReduceOrder(c, amt) ==
  [c EXCEPT !.side = IF amt > 0 THEN "SELL" ELSE "BUY",
            !.qty = Quantize(Abs(amt), c.step)]

\* lines 692-701: one poll of the exchange position.  fetchPos answers the
\* position, null (symbol omitted, body not a list) or throws.
ClosePoll(p) ==
  /\ pc[p] = "close_poll"
  /\ cur[p].attempts < MaxAttempts
  /\ \/ HasApi(env.deploy) /\ AbortEnforce(p)
     \/ \E listed \in (IF HasApi(env.deploy) THEN BOOLEAN ELSE {FALSE}) :
          LET amt == IF listed THEN exPos[cur[p].sym] ELSE 0
              c == [cur[p] EXCEPT !.attempts = @ + 1]
          IN /\ UNCHANGED <<todo, openMap>>
             /\ IF ReportsFlat(listed, amt)
                  THEN /\ pc' = [pc EXCEPT ![p] = "close_final"]
                       /\ cur' = [cur EXCEPT ![p] = c]
                  ELSE /\ pc' = [pc EXCEPT ![p] = "close_order"]
                       /\ cur' = [cur EXCEPT ![p] = ReduceOrder(c, amt)]
  /\ UNCHANGED <<env, desk, now, kv, exPos, counters, tcfg, rt, acct, plan, ord, clist, elist, result>>

\* What a market order of quantity m may fill: all of it, or part of it.
Fills(m) == {m} \cup (IF m >= 2 THEN {m \div 2} ELSE {})

\* The average price the exchange answers for a fill (avgPrice of line 707):
\* the ticker's price, or one off it; without one the code takes the ticker's.
FillPrices(e, price) == {price + d : d \in e.slips}

\* The exchange nets a reduce-only order against the position it holds: the
\* order reduces at most the position, and is refused when there is nothing
\* on that side to reduce.
Reducible(amt, side, qty) ==
  IF side = "SELL" /\ amt > 0 THEN Min(qty, amt)
  ELSE IF side = "BUY" /\ amt < 0 THEN Min(qty, 0 - amt)
  ELSE 0

\* The loop's totals with every answered order booked, accepted or not.
BookedAlways(c, ok, px) ==
  [c EXCEPT !.totalQtyClosed = @ + c.qty,
            !.sumNotionalExit = @ + px * c.qty,
            !.lastExitPrice = px]

\* lines 706-711: on res.ok the loop books the order's whole quantity at the
\* answered price.
Booked(c, ok, px) ==
  IF ok THEN [c EXCEPT !.totalQtyClosed = @ + c.qty,
                       !.sumNotionalExit = @ + px * c.qty,
                       !.lastExitPrice = px]
        ELSE c

\* lines 702-714: submit the reduce-only order.  A refused order's body
\* carries no price, so px falls back on the ticker's.
CloseOrder(p) ==
  /\ pc[p] = "close_order"
  /\ LET c == cur[p]
         back == IF c.attempts < MaxAttempts THEN "close_poll" ELSE "close_final"
     IN \/ AbortEnforce(p) /\ UNCHANGED exPos
        \/ /\ pc' = [pc EXCEPT ![p] = back]
           /\ cur' = [cur EXCEPT ![p] = Booked(c, FALSE, c.price)]
           /\ UNCHANGED <<exPos, todo, openMap>>
        \/ /\ SignedPost(env.deploy) = "sent"
           /\ Reducible(exPos[c.sym], c.side, c.qty) > 0
           /\ \E fill \in Fills(Reducible(exPos[c.sym], c.side, c.qty)),
                 px \in FillPrices(env, c.price) :
                /\ exPos' = [exPos EXCEPT ![c.sym] =
                               IF c.side = "SELL" THEN @ - fill ELSE @ + fill]
                /\ cur' = [cur EXCEPT ![p] = Booked(c, TRUE, px)]
                /\ pc' = [pc EXCEPT ![p] = back]
                /\ UNCHANGED <<todo, openMap>>
  /\ UNCHANGED <<env, desk, now, kv, counters, tcfg, rt, acct, plan, ord, clist, elist, result>>

\* lines 715-721: the final position query.  A throw is caught (line 720) and
\* a null answer reads as positionAmt 0.
FinalAmt(answer, amt) == IF answer = "listed" THEN amt ELSE 0

CloseFinal(p) ==
  /\ pc[p] = "close_final"
  /\ \E answer \in (IF HasApi(env.deploy) THEN {"listed", "null", "throw"}
                                             ELSE {"null"}) :
       LET finalAmt == FinalAmt(answer, exPos[cur[p].sym])
           c == [cur[p] EXCEPT !.final = answer, !.finalAmt = finalAmt]
       IN IF ShouldRecordClose(finalAmt, c.totalQtyClosed)
            THEN /\ pc' = [pc EXCEPT ![p] = "rec_put"]
                 /\ cur' = [cur EXCEPT ![p] = c]
                 /\ clist' = [clist EXCEPT ![p] = kvClosed]
                 /\ UNCHANGED todo
            ELSE /\ NextSymbol(p, c)
                 /\ UNCHANGED clist
  /\ UNCHANGED <<env, desk, now, kv, exPos, counters, tcfg, rt, acct, openMap, plan, ord, elist, result>>

\* line 740: appendClosedTrade's put.
RecPut(p) ==
  /\ pc[p] = "rec_put"
  /\ kvClosed' = AppendClosed(clist[p], LoopClosedTrade(cur[p]))
  /\ clist' = [clist EXCEPT ![p] = <<>>]
  /\ pc' = [pc EXCEPT ![p] = "rec_open"]
  /\ UNCHANGED <<env, desk, now, cfg, kvRt, kvOpen, kvEquity, kvDay, exPos, counters,
                 tcfg, rt, acct, openMap, todo, cur, plan, ord, elist, result>>

\* lines 741-742
RecOpen(p) ==
  /\ pc[p] = "rec_open"
  /\ openMap' = [openMap EXCEPT ![p][cur[p].sym] = NoTrade]
  /\ kvOpen' = openMap'[p]
  /\ NextSymbol(p, cur[p])
  /\ UNCHANGED <<env, desk, now, cfg, kvRt, kvClosed, kvEquity, kvDay, exPos, counters,
                 tcfg, rt, acct, plan, ord, clist, elist, result>>

\* ------------------------------------------------- decision (748-773)
\* What callLLMDecider may hand back: it throws (ok = FALSE), or it returns
\* the parsed content, whose fields are whatever the oracle wrote ("none":
\* the key is missing, the content was not JSON, or the value has no use).
\* The plans' levels: none, or a stop and a target at the same price with a
\* minimum hold.
PlanLevels ==
  {[stopLoss |-> Absent, takeProfit |-> Absent, minHoldMs |-> Absent],
   [stopLoss |-> 10, takeProfit |-> 10, minHoldMs |-> 2]}
OraclePlans ==
  {NoPlan}
  \cup {[NoPlan EXCEPT !.ok = TRUE, !.action = a] : a \in {"none", "FLAT", "HOLD"}}
  \cup {[ok |-> TRUE, action |-> a, symbol |-> s, stopLoss |-> l.stopLoss,
         takeProfit |-> l.takeProfit, minHoldMs |-> l.minHoldMs] :
          a \in {"LONG", "SHORT"}, s \in Universe \cup {OtherSymbol},
          l \in PlanLevels}

\* The older worker (unnamed/part_003, line 670) calls the oracle in no try
\* of its own: a failed call is the tick's error.
AfterOracleFailureUncaught == [pc |-> "catch", error |-> "LLM call failed"]

\* lines 755-760: where a failed oracle call leaves the tick, and the error
\* it carries there.
AfterOracleFailure == [pc |-> "order", error |-> "none"]

\* line 767
SelectedSymbol(pl) ==
  IF pl.symbol \in Universe THEN pl.symbol ELSE UniverseSeq[1]

\* line 768
SelectedAction(pl) ==
  IF pl.action \in {"LONG", "SHORT", "FLAT"} THEN pl.action ELSE "FLAT"

\* line 772: floor(x * 0.50) of (equityUsd || availableBalance), at least 0.
TargetRisk(a) ==
  Max(0, (IF a.equityUsd # 0 THEN a.equityUsd ELSE a.availableBalance) \div 2)

\* A size that takes half the equity whatever the cap.
SizeUsdUncapped(c, a) == TargetRisk(a)

\* line 773
SizeUsd(c, a) == Min(c.maxRiskPerTradeUsd, TargetRisk(a))

\* lines 756-770
Oracle(p) ==
  /\ pc[p] = "decide"
  /\ \E pl \in env.plans :
       /\ plan' = [plan EXCEPT ![p] = pl]
       /\ IF pl.ok
            THEN pc' = [pc EXCEPT ![p] = "order"] /\ UNCHANGED result
            ELSE /\ pc' = [pc EXCEPT ![p] = AfterOracleFailure.pc]
                 /\ result' = [result EXCEPT ![p] = AfterOracleFailure.error]
  /\ UNCHANGED <<env, desk, now, kv, exPos, counters, tcfg, rt, acct, openMap, todo, cur, ord, clist, elist>>

\* An await of the top-level try that is in no inner try (appendLog of lines
\* 766, 770, 902, the runtime put of line 1015) throws: the store failed.
StoreFault(p) ==
  /\ pc[p] \in {"order", "finish"}
  /\ pc' = [pc EXCEPT ![p] = "catch"]
  /\ result' = [result EXCEPT ![p] = "store_fault"]
  /\ plan' = [plan EXCEPT ![p] = NoPlan]
  /\ UNCHANGED <<env, desk, now, kv, exPos, counters, tcfg, rt, acct, openMap, todo, cur, ord, clist, elist>>

\* ------------------------------------------ status of a FLAT tick (777-899)
\* appendLog, lines 416-419: push, then drop from the front.
AppendLog(list, entry) ==
  LET l == Append(list, entry)
  IN IF Len(l) > LogCapacity
       THEN SubSeq(l, Len(l) - LogCapacity + 1, Len(l))
       ELSE l

\* line 836: the template of the primary line rotates each minute.
Variant(at) == at % 3

\* lines 873-874: the hash of the novelty text.  SHA-256 is taken to have no
\* collisions: the hash stands for the text it was computed from.
NoveltyHash(summary, eq, at) ==
  [summary |-> summary, eq |-> eq, variant |-> Variant(at)]

\* line 870 with the test of line 877: |eq - lastEq| / lastEq < 0.003, and 0
\* when there is no last equity.
PctMoveSmall(eq, lastEq) ==
  IF lastEq > 0 THEN 1000 * Abs(eq - lastEq) < 3 * lastEq ELSE TRUE

\* line 876
IsDuplicate(hashes, h) == \E i \in 1..Len(hashes) : hashes[i] = h

\* A narrator that drops every summary it has already logged.
StatusEmitsWhenNew(last, h, eq, at) == ~IsDuplicate(last.hashes, h)

\* lines 877-898: whether the step logs the status.
StatusEmits(last, h, eq, at) ==
  IF IsDuplicate(last.hashes, h) /\ at - last.at < RecentWindowMin
       /\ PctMoveSmall(eq, last.equityUsd)
    THEN at - last.at >= MinStatusIntervalMin
    ELSE TRUE

\* lines 884 and 895: the newest hash first, 12 at most.
NextHashes(hashes, h) ==
  LET l == <<h>> \o hashes
  IN SubSeq(l, 1, Min(HashCapacity, Len(l)))

\* lines 777-899 of a tick whose selected action is FLAT: the summary is
\* composed (from the open map, the tickers, the equity and the oracle's
\* thesis), hashed and logged or skipped.  ticks counts these ticks.
FlatStatus(p) ==
  /\ pc[p] = "idle"
  /\ ticks < env.ticks
  /\ ticks' = ticks + 1
  /\ \E summary \in env.summaries, eq \in env.equities :
       LET h == NoveltyHash(summary, eq, now)
           statusLog == [type |-> "vibe_status", skipped |-> FALSE, at |-> now,
                         equityUsd |-> eq, summary |-> summary]
       IN IF StatusEmits(kvLast, h, eq, now)
            THEN /\ kvLogs' = AppendLog(kvLogs, StatusEntry(now, eq, summary))
                 /\ kvLast' = [at |-> now, equityUsd |-> eq,
                               hashes |-> NextHashes(kvLast.hashes, h)]
                 /\ lastOutput' = [lastOutput EXCEPT ![p] = statusLog]
            ELSE /\ lastOutput' = [lastOutput EXCEPT ![p] =
                       [statusLog EXCEPT !.skipped = TRUE]]
                 /\ UNCHANGED <<kvLast, kvLogs>>
  /\ UNCHANGED <<env, now, kv, exPos, opens, admins, pc, locals, resp, calc>>

\* -------------------------------------------------- opening order (908-1005)
\* line 914
CoolOk(r, at) == r.lastOrderAt = 0 \/ at - r.lastOrderAt > CooldownMin

\* lines 922-930: the losing closes of the last 30 minutes among the last 10.
\* The losers of the last closes, whenever they closed.
RecentLosersAnyTime(list, at) ==
  {i \in Max(1, Len(list) - LossLookback + 1)..Len(list) : list[i].pnlUsd < 0}

\* lines 923-931: the losing closes of the window among the last ten.
RecentLosers(list, at) ==
  {i \in Max(1, Len(list) - LossLookback + 1)..Len(list) :
     at - list[i].closedAt < LossWindowMin /\ list[i].pnlUsd < 0}

RECURSIVE SumPnl(_, _)
SumPnl(list, idx) ==
  IF idx = {} THEN 0
  ELSE LET i == CHOOSE j \in idx : TRUE
       IN list[i].pnlUsd + SumPnl(list, idx \ {i})

\* A skip that looks at the recent losses alone.
ShouldSkipLossesOnly(r, list, at) ==
  /\ Cardinality(RecentLosers(list, at)) >= LossCountMin
  /\ SumPnl(list, RecentLosers(list, at)) < 0 - LossTotalUsd

\* line 933
ShouldSkip(r, list, at) ==
  \/ ~CoolOk(r, at)
  \/ /\ Cardinality(RecentLosers(list, at)) >= LossCountMin
     /\ SumPnl(list, RecentLosers(list, at)) < 0 - LossTotalUsd

\* A bump that rounds the needed quantity down to the step.
OpenQtyBumpDown(notional, price, info) ==
  LET qty == Quantize(Max(MinQty, notional \div price), info.step)
  IN IF info.minNotional # Absent /\ qty * price < info.minNotional
       THEN Max(qty, (info.minNotional \div (price * info.step)) * info.step)
       ELSE qty

\* lines 939-950.  floor(max(0.0001, notional / price) / step) is computed
\* without rounding the quotient first; a quotient notional / price that is a
\* whole number of base units is that quantity's double.
OpenQty(notional, price, info) ==
  LET whole == IF notional % price = 0
                 THEN FloorQuot(Max(MinQty, notional \div price), info.step)
                 ELSE Max(MinQty \div info.step, notional \div (price * info.step))
      steps == Max(1, whole)
      qty == steps * info.step
  IN IF info.minNotional # Absent /\ qty * price < info.minNotional
       THEN Max(qty, CeilDiv(info.minNotional, price * info.step) * info.step)
       ELSE qty

\* An order of any positive size goes out.
NotionalPositive(notional) == notional > 0

\* line 934
NotionalOk(notional) == notional >= MinNotionalUsd

\* The decision step is over: the plan and the order are not read again.
LeaveDecision(p) ==
  /\ pc' = [pc EXCEPT ![p] = "finish"]
  /\ plan' = [plan EXCEPT ![p] = NoPlan]
  /\ ord' = [ord EXCEPT ![p] = NoOrder]

\* lines 910-950: the guards of the opening order (with the ASTER_API_SECRET
\* of line 910), the price and the quantity.
OrderCheck(p) ==
  /\ pc[p] = "order"
  /\ LET action == SelectedAction(plan[p])
         notional == SizeUsd(tcfg[p], acct[p])
     IN IF action \in {"LONG", "SHORT"} /\ env.deploy.apiSecret
             /\ ~ShouldSkip(rt[p], kvClosed, now) /\ NotionalOk(notional)
          THEN \E price \in PublicPrices(env),
                  info \in SymbolInfos(env, SelectedSymbol(plan[p])) :
                 IF price > 0
                   THEN /\ pc' = [pc EXCEPT ![p] = "submit"]
                        /\ ord' = [ord EXCEPT ![p] =
                             [NoOrder EXCEPT !.symbol = SelectedSymbol(plan[p]),
                                !.side = IF action = "LONG" THEN "BUY" ELSE "SELL",
                                !.sizeUsd = notional, !.at = now, !.price = price,
                                !.qty = OpenQty(notional, price, info)]]
                        /\ UNCHANGED plan
                   ELSE LeaveDecision(p)
          ELSE LeaveDecision(p)
  /\ UNCHANGED <<env, desk, now, kv, exPos, counters, tcfg, rt, acct, openMap, todo, cur, clist, elist, result>>

\* An order step that goes on to the tracking whatever the exchange answered.
OrderSubmitUnchecked(p) ==
  /\ pc[p] = "submit"
  /\ LET o == ord[p]
     IN \E ok \in BOOLEAN :
          /\ ok => SignedPost(env.deploy) = "sent" /\ opens < env.opens
          /\ opens' = IF ok THEN opens + 1 ELSE opens
          /\ ord' = [ord EXCEPT ![p] = [o EXCEPT !.sent = TRUE, !.ok = ok]]
          /\ exPos' = IF ok THEN [exPos EXCEPT ![o.symbol] =
                                   IF o.side = "BUY" THEN @ + o.qty ELSE @ - o.qty]
                            ELSE exPos
          /\ rt' = [rt EXCEPT ![p] =
               [@ EXCEPT !.lastOrderAt = o.at,
                         !.lastSignal = SelectedAction(plan[p])]]
          /\ pc' = [pc EXCEPT ![p] = "track"]
          /\ UNCHANGED plan
  /\ UNCHANGED <<env, desk, now, kv, ticks, admins, acct, tcfg, openMap, todo, cur, clist, elist, result>>

\* lines 952-958: the exchange answers the opening order.  An accepted order
\* is netted into the position in full.
OrderSubmit(p) ==
  /\ pc[p] = "submit"
  /\ LET o == ord[p]
     IN \/ /\ LeaveDecision(p)
           /\ UNCHANGED <<exPos, opens, rt>>
        \/ /\ SignedPost(env.deploy) = "sent"
           /\ opens < env.opens
           /\ opens' = opens + 1
           /\ ord' = [ord EXCEPT ![p] = [o EXCEPT !.sent = TRUE, !.ok = TRUE]]
           /\ exPos' = [exPos EXCEPT ![o.symbol] =
                          IF o.side = "BUY" THEN @ + o.qty ELSE @ - o.qty]
           /\ rt' = [rt EXCEPT ![p] =
                [@ EXCEPT !.lastOrderAt = o.at,
                          !.lastSignal = SelectedAction(plan[p])]]
           /\ pc' = [pc EXCEPT ![p] = "track"]
           /\ UNCHANGED plan
  /\ UNCHANGED <<env, desk, now, kv, ticks, admins, acct, tcfg, openMap, todo, cur, clist, elist, result>>

\* The close of a replaced position priced at its own entry.
FlipClosedTradeAtEntry(existing, price, at) ==
  [symbol |-> existing.symbol, side |-> existing.side, qty |-> existing.qty,
   entryPrice |-> existing.entryPrice,
   exitPrice |-> [num |-> existing.entryPrice, den |-> 1],
   notionalEntry |-> existing.notionalEntry,
   notionalExit |-> Abs(existing.qty * existing.entryPrice),
   openedAt |-> existing.openedAt, closedAt |-> at,
   holdingMs |-> Max(0, at - existing.openedAt),
   pnlUsd |-> 0]

\* lines 964-981: the ClosedTrade of a position replaced by a new order.
FlipClosedTrade(existing, price, at) ==
  [symbol |-> existing.symbol, side |-> existing.side, qty |-> existing.qty,
   entryPrice |-> existing.entryPrice,
   exitPrice |-> [num |-> price, den |-> 1],
   notionalEntry |-> existing.notionalEntry,
   notionalExit |-> Abs(existing.qty * price),
   openedAt |-> existing.openedAt, closedAt |-> at,
   holdingMs |-> Max(0, at - existing.openedAt),
   pnlUsd |-> PnlNow(existing, price)]

\* An entry that carries the symbol the oracle wrote, not the selected one.
NewOpenTradeRawSymbol(o, pl) ==
  [symbol |-> pl.symbol, side |-> SelectedAction(pl), qty |-> o.qty,
   entryPrice |-> o.price, notionalEntry |-> Abs(o.qty * o.price),
   openedAt |-> o.at, stopLoss |-> pl.stopLoss, takeProfit |-> pl.takeProfit,
   minHoldMs |-> IF pl.minHoldMs = Absent THEN Absent ELSE Max(0, pl.minHoldMs)]

\* lines 983-996
NewOpenTrade(o, pl) ==
  [symbol |-> o.symbol, side |-> SelectedAction(pl), qty |-> o.qty,
   entryPrice |-> o.price, notionalEntry |-> Abs(o.qty * o.price),
   openedAt |-> o.at, stopLoss |-> pl.stopLoss, takeProfit |-> pl.takeProfit,
   minHoldMs |-> IF pl.minHoldMs = Absent THEN Absent ELSE Max(0, pl.minHoldMs)]

\* lines 961-966: read the map again; an existing entry is closed first.
TrackRead(p) ==
  /\ pc[p] = "track"
  /\ openMap' = [openMap EXCEPT ![p] = kvOpen]
  /\ IF kvOpen[ord[p].symbol] # NoTrade
       THEN /\ clist' = [clist EXCEPT ![p] = kvClosed]
            /\ pc' = [pc EXCEPT ![p] = "track_closed"]
       ELSE /\ pc' = [pc EXCEPT ![p] = "track_open"]
            /\ UNCHANGED clist
  /\ UNCHANGED <<env, desk, now, kv, exPos, counters, rt, acct, tcfg, todo, cur, plan, ord, elist, result>>

\* line 966: appendClosedTrade's put.
TrackClosedPut(p) ==
  /\ pc[p] = "track_closed"
  /\ kvClosed' = AppendClosed(clist[p],
                   FlipClosedTrade(openMap[p][ord[p].symbol], ord[p].price, ord[p].at))
  /\ clist' = [clist EXCEPT ![p] = <<>>]
  /\ pc' = [pc EXCEPT ![p] = "track_open"]
  /\ UNCHANGED <<env, desk, now, cfg, kvRt, kvOpen, kvEquity, kvDay, exPos, counters,
                 rt, acct, tcfg, openMap, todo, cur, plan, ord, elist, result>>

\* lines 983-997
TrackOpenPut(p) ==
  /\ pc[p] = "track_open"
  /\ kvOpen' = [openMap[p] EXCEPT ![ord[p].symbol] = NewOpenTrade(ord[p], plan[p])]
  /\ openMap' = [openMap EXCEPT ![p] = EmptyMap]
  /\ LeaveDecision(p)
  /\ UNCHANGED <<env, desk, now, cfg, kvRt, kvClosed, kvEquity, kvDay, exPos, counters,
                 tcfg, rt, acct, todo, cur, clist, elist, result>>

\* ------------------------------------------- end of the tick (1014-1041)
\* A runtime record written anew: what the tick read is not carried over.
FinishAnew(p) ==
  /\ pc[p] = "finish"
  /\ kvRt' = [NoRuntime EXCEPT !.lastTickAt = now]
  /\ result' = [result EXCEPT ![p] = "ok"]
  /\ pc' = [pc EXCEPT ![p] = "finally"]
  /\ UNCHANGED <<env, desk, now, cfg, kvOpen, kvClosed, kvEquity, kvDay, exPos, counters,
                 rt, acct, tcfg, openMap, todo, cur, plan, ord, clist, elist>>

\* lines 1014-1016
Finish(p) ==
  /\ pc[p] = "finish"
  /\ kvRt' = [rt[p] EXCEPT !.lastTickAt = now, !.lastError = "none"]
  /\ result' = [result EXCEPT ![p] = "ok"]
  /\ pc' = [pc EXCEPT ![p] = "finally"]
  /\ UNCHANGED <<env, desk, now, cfg, kvOpen, kvClosed, kvEquity, kvDay, exPos, counters,
                 rt, acct, tcfg, openMap, todo, cur, plan, ord, clist, elist>>

\* A catch that returns at once: the sampling would sit in the try body.
CatchAndReturn(p) ==
  /\ pc[p] = "catch"
  /\ kvRt' = [rt[p] EXCEPT !.lastTickAt = now, !.lastError = result[p]]
  /\ pc' = [pc EXCEPT ![p] = "done"]
  /\ UNCHANGED <<env, desk, now, cfg, kvOpen, kvClosed, kvEquity, kvDay, exPos, counters,
                 locals>>

\* lines 1017-1022
Catch(p) ==
  /\ pc[p] = "catch"
  /\ kvRt' = [rt[p] EXCEPT !.lastTickAt = now, !.lastError = result[p]]
  /\ pc' = [pc EXCEPT ![p] = "finally"]
  /\ UNCHANGED <<env, desk, now, cfg, kvOpen, kvClosed, kvEquity, kvDay, exPos, counters,
                 locals>>

\* line 1026: whether the finally block samples.
SamplesEquity(a) == a.equityUsd > 0

\* A list cut at the back: the newest sample goes.
AppendEquityCutBack(list, sample) ==
  IF SeriesLen(list) + 1 > EquityCapacity THEN list ELSE SeriesPush(list, sample)

\* lines 1030-1032: push, then drop from the front.
AppendEquity(list, sample) ==
  LET l == SeriesPush(list, sample)
  IN IF SeriesLen(l) > EquityCapacity
       THEN SeriesDropFront(l, SeriesLen(l) - EquityCapacity)
       ELSE l

\* dayKey, lines 25-31: the UTC day of a timestamp.
DayKey(ts) == ts \div DayMinutes

DayList(d) == IF d \in DOMAIN kvDay THEN kvDay[d] ELSE NoSeries

\* lines 1026-1029: nowTs is read, then the rolling list.  The store answers
\* the requests of the finally block (a failure there is swallowed at line
\* 1040 and leaves the lists as they are).
FinallyGet(p) ==
  /\ pc[p] = "finally"
  /\ IF SamplesEquity(acct[p])
       THEN /\ elist' = [elist EXCEPT ![p] = kvEquity]
            /\ acct' = [acct EXCEPT ![p].nowTs = now]
            /\ pc' = [pc EXCEPT ![p] = "fin_put"]
       ELSE /\ pc' = [pc EXCEPT ![p] = "done"]
            /\ UNCHANGED <<elist, acct>>
  /\ UNCHANGED <<env, desk, now, kv, exPos, counters, rt, tcfg, openMap, todo, cur, plan, ord,
                 clist, result>>

\* lines 1030-1036: the rolling list is put and the day list of nowTs read.
FinallyPut(p) ==
  /\ pc[p] = "fin_put"
  /\ LET sample == [at |-> acct[p].nowTs, equityUsd |-> acct[p].equityUsd]
     IN /\ kvEquity' = AppendEquity(elist[p], sample)
        /\ elist' = [elist EXCEPT ![p] =
                       SeriesPush(DayList(DayKey(sample.at)), sample)]
  /\ pc' = [pc EXCEPT ![p] = "fin_day"]
  /\ UNCHANGED <<env, desk, now, cfg, kvRt, kvOpen, kvClosed, kvDay, exPos, counters,
                 rt, acct, tcfg, openMap, todo, cur, plan, ord, clist, result>>

\* lines 1037-1038
FinallyDay(p) ==
  /\ pc[p] = "fin_day"
  /\ LET d == DayKey(SeriesLast(elist[p]).at)
     IN kvDay' = [k \in DOMAIN kvDay \cup {d} |-> IF k = d THEN elist[p] ELSE kvDay[k]]
  /\ elist' = [elist EXCEPT ![p] = NoSeries]
  /\ pc' = [pc EXCEPT ![p] = "done"]
  /\ UNCHANGED <<env, desk, now, cfg, kvRt, kvOpen, kvClosed, kvEquity, exPos, counters,
                 rt, acct, tcfg, openMap, todo, cur, plan, ord, clist, result>>

\* vibeTick returns; its locals are gone.
TickReturn(p) ==
  /\ pc[p] = "done"
  /\ pc' = [pc EXCEPT ![p] = "idle"]
  /\ rt' = [rt EXCEPT ![p] = NoRuntime]
  /\ acct' = [acct EXCEPT ![p] = NoAcct]
  /\ tcfg' = [tcfg EXCEPT ![p] = DefaultConfig]
  /\ openMap' = [openMap EXCEPT ![p] = EmptyMap]
  /\ todo' = [todo EXCEPT ![p] = {}]
  /\ cur' = [cur EXCEPT ![p] = NoClose]
  /\ plan' = [plan EXCEPT ![p] = NoPlan]
  /\ ord' = [ord EXCEPT ![p] = NoOrder]
  /\ clist' = [clist EXCEPT ![p] = <<>>]
  /\ elist' = [elist EXCEPT ![p] = NoSeries]
  /\ result' = [result EXCEPT ![p] = "none"]
  /\ UNCHANGED <<env, desk, now, kv, exPos, counters>>

\* ------------------------------------------------------------ first states
\* The store before the first tick: no key is set.
EmptyStore ==
  [cfg |-> DefaultConfig, kvRt |-> NoRuntime, kvOpen |-> EmptyMap,
   kvClosed |-> <<>>, kvEquity |-> NoSeries, kvDay |-> <<>>,
   exPos |-> [s \in Universe |-> 0], opens |-> 0]

\* The store after a tick at minute 1 that took an equity of 40, got the
\* plan pl for an empty map and had its order accepted at the price SeedPrice:
\* the order of OrderCheck, the position of OrderSubmit, the entry of
\* TrackOpenPut, the runtime record of Finish and the sample of FinallyPut
\* and FinallyDay.
SeedPrice == 10
SeedEquity == 40
OpenedStore(pl) ==
  LET a == [NoAcct EXCEPT !.equityUsd = SeedEquity, !.availableBalance = SeedEquity]
      sym == SelectedSymbol(pl)
      o == [NoOrder EXCEPT !.symbol = sym,
              !.side = IF SelectedAction(pl) = "LONG" THEN "BUY" ELSE "SELL",
              !.sizeUsd = SizeUsd(DefaultConfig, a), !.at = 1, !.price = SeedPrice,
              !.qty = OpenQty(SizeUsd(DefaultConfig, a), SeedPrice, ExInfo[sym])]
      sample == [at |-> 1, equityUsd |-> SeedEquity]
  IN [cfg |-> DefaultConfig,
      kvRt |-> [NoRuntime EXCEPT !.lastTickAt = 1, !.lastOrderAt = 1,
                                 !.lastSignal = SelectedAction(pl)],
      kvOpen |-> [EmptyMap EXCEPT ![sym] = NewOpenTrade(o, pl)],
      kvClosed |-> <<>>,
      kvEquity |-> SeriesOf(<<sample>>),
      kvDay |-> [d \in {DayKey(1)} |-> SeriesOf(<<sample>>)],
      exPos |-> [s \in Universe |->
                   IF s # sym THEN 0 ELSE IF o.side = "BUY" THEN o.qty ELSE 0 - o.qty],
      opens |-> 1]

\* The plans whose order opens a position of the universe.
OpeningPlans ==
  {q \in OraclePlans : q.action \in {"LONG", "SHORT"} /\ q.symbol \in Universe}

FirstStores == {EmptyStore} \cup {OpenedStore(pl) : pl \in OpeningPlans}

\* What a specification lets the environment do: how many ticks, accepted
\* opening orders and admin requests, how far the clock runs and where it
\* starts, the prices, equities and plans that are answered, and the stores
\* the ticks start from.
SerialEnv ==
  [ticks |-> MaxTicks, opens |-> MaxOpens, admins |-> MaxAdmin,
   start |-> 1, clock |-> MaxClock, step |-> ClockStep,
   prices |-> Prices, equities |-> Equities, plans |-> OraclePlans,
   stores |-> FirstStores, summaries |-> {},
   bodies |-> RunBodies, adminKey |-> AdminKey, keys |-> {AdminKey}, deploy |-> FullDeploy, anchor |-> NoAnchor, slips |-> {0}]

\* Two ticks at once, minutes after a long position with a stop was opened:
\* the price is under the stop, and the oracle fails or asks for a long
\* position in the same symbol.
OverlapPlans ==
  {NoPlan, [NoPlan EXCEPT !.ok = TRUE, !.action = "LONG", !.symbol = UniverseSeq[1]]}
OverlapSeeds ==
  {q \in OpeningPlans : q.action = "LONG" /\ q.symbol = UniverseSeq[1]
                        /\ q.stopLoss # Absent}
OverlapEnv ==
  [ticks |-> MaxOverlap, opens |-> MaxOpens, admins |-> 0,
   start |-> MaxClock, clock |-> MaxClock, step |-> ClockStep,
   prices |-> {SeedPrice - 1}, equities |-> {SeedEquity}, plans |-> OverlapPlans,
   stores |-> {OpenedStore(pl) : pl \in OverlapSeeds}, summaries |-> {},
   bodies |-> RunBodies, adminKey |-> AdminKey, keys |-> {AdminKey}, deploy |-> FullDeploy, anchor |-> NoAnchor, slips |-> {0}]

\* No tick is running; the store is one of the environment's first stores.
Start(e) ==
  /\ env = e
  /\ now = e.start
  /\ \E st \in e.stores :
       /\ cfg = st.cfg
       /\ kvRt = st.kvRt
       /\ kvOpen = st.kvOpen
       /\ kvClosed = st.kvClosed
       /\ kvEquity = st.kvEquity
       /\ kvDay = st.kvDay
       /\ exPos = st.exPos
       /\ opens = st.opens
  /\ ticks = 0 /\ admins = 0
  /\ pc = [p \in Procs |-> "idle"]
  /\ tcfg = [p \in Procs |-> DefaultConfig]
  /\ rt = [p \in Procs |-> NoRuntime]
  /\ acct = [p \in Procs |-> NoAcct]
  /\ openMap = [p \in Procs |-> EmptyMap]
  /\ todo = [p \in Procs |-> {}]
  /\ cur = [p \in Procs |-> NoClose]
  /\ plan = [p \in Procs |-> NoPlan]
  /\ ord = [p \in Procs |-> NoOrder]
  /\ clist = [p \in Procs |-> <<>>]
  /\ elist = [p \in Procs |-> NoSeries]
  /\ result = [p \in Procs |-> "none"]
  /\ kvLast = NoLast
  /\ kvLogs = <<>>
  /\ lastOutput = [p \in Procs |-> NoOutput]
  /\ resp = NoResponse
  /\ calc = NoCalc

Init == Start(SerialEnv)

\* ------------------------------------------- the closed-trade list alone
\* The i-th close of a long history: a position opened at minute i and
\* replaced one minute later (lines 964-981).
HistoricTrade(i) ==
  LET pl == [NoPlan EXCEPT !.ok = TRUE, !.action = "LONG", !.symbol = UniverseSeq[1]]
      o == [NoOrder EXCEPT !.symbol = UniverseSeq[1], !.side = "BUY", !.at = i,
                           !.price = SeedPrice, !.qty = MinQty]
  IN FlipClosedTrade(NewOpenTrade(o, pl), SeedPrice, i + 1)

\* A store whose closed-trade list holds n closes.
HistoricStore(n) == [EmptyStore EXCEPT !.kvClosed = [i \in 1..n |-> HistoricTrade(i)]]

\* Calls of appendClosedTrade on lists that are full or nearly so.
LedgerEnv ==
  [ticks |-> MaxAppends, opens |-> 0, admins |-> 0,
   start |-> ClosedCapacity + 2, clock |-> ClosedCapacity + 2, step |-> ClockStep,
   prices |-> Prices, equities |-> {}, summaries |-> {},
   bodies |-> RunBodies, adminKey |-> AdminKey, keys |-> {AdminKey}, deploy |-> FullDeploy, anchor |-> NoAnchor, slips |-> {0},
   plans |-> {q \in OpeningPlans : q.symbol = UniverseSeq[1] /\ q.stopLoss = Absent},
   stores |-> {HistoricStore(n) :
                 n \in (ClosedCapacity - LedgerSlack)..ClosedCapacity}]

InitLedger == Start(LedgerEnv)

\* appendClosedTrade (464-470) called for the close of a position the plan pl
\* opened, at the price the environment answers.  ticks counts the calls.
AppendClosedTrade ==
  /\ ticks < env.ticks
  /\ ticks' = ticks + 1
  /\ \E pl \in env.plans, price \in env.prices :
       kvClosed' = AppendClosed(kvClosed,
                     FlipClosedTrade(OpenedStore(pl).kvOpen[pl.symbol], price, now))
  /\ UNCHANGED <<env, desk, now, cfg, kvRt, kvOpen, kvEquity, kvDay, exPos, opens, admins,
                 pc, locals>>

NextLedger == AppendClosedTrade

SpecLedger == InitLedger /\ [][NextLedger]_vars

InitOverlap == Start(OverlapEnv)

\* ------------------------------------------------------- admin (479-519)
\* lines 489-500: body?.x ?? cfg.x for the caps (and likewise for the
\* universe, the daily loss, the exposure, the leverage and the model, which
\* no step of the model reads); line 497 for the margin mode.
RunConfig(c, body) ==
  [status |-> "running",
   maxRiskPerTradeUsd |-> IF body.maxRiskPerTradeUsd # Absent
                            THEN body.maxRiskPerTradeUsd ELSE c.maxRiskPerTradeUsd,
   maxLossPerTradeUsd |-> IF body.maxLossPerTradeUsd # Absent
                            THEN body.maxLossPerTradeUsd ELSE c.maxLossPerTradeUsd,
   marginMode |-> IF body.marginMode = "isolated" THEN "isolated" ELSE "cross"]

\* A check that lets every request through while no ADMIN_KEY is set.
AuthorizedOrOpen(admin, key) == admin = "" \/ key = admin

\* lines 482-484 (and 509-511): admin is ADMIN_KEY ("" when it is not set),
\* key the x-admin-key header ("" when the request has none).
Authorized(admin, key) == admin # "" /\ key = admin

\* handleVibeRun: the key check, then the status, the overridden caps and the
\* log entry.
Run ==
  /\ admins < env.admins
  /\ admins' = admins + 1
  /\ \E key \in env.keys, body \in env.bodies :
       IF Authorized(env.adminKey, key)
         THEN /\ cfg' = RunConfig(cfg, body)
              /\ kvLogs' = AppendLog(kvLogs, AdminEntry(now, "running"))
              /\ resp' = [key |-> key, body |-> body, answer |-> Accepted]
         ELSE /\ resp' = [key |-> key, body |-> NoBody, answer |-> Forbidden]
              /\ UNCHANGED <<cfg, kvLogs>>
  /\ UNCHANGED <<env, now, kvRt, kvOpen, kvClosed, kvEquity, kvDay, exPos, ticks, opens,
                 pc, locals, kvLast, lastOutput, calc>>

\* handleVibeStop: the key check, then the status and the log entry.
Stop ==
  /\ admins < env.admins
  /\ admins' = admins + 1
  /\ \E key \in env.keys :
       IF Authorized(env.adminKey, key)
         THEN /\ cfg' = [cfg EXCEPT !.status = "stopped"]
              /\ kvLogs' = AppendLog(kvLogs, AdminEntry(now, "stopped"))
              /\ resp' = [key |-> key, body |-> NoBody, answer |-> Accepted]
         ELSE /\ resp' = [key |-> key, body |-> NoBody, answer |-> Forbidden]
              /\ UNCHANGED <<cfg, kvLogs>>
  /\ UNCHANGED <<env, now, kvRt, kvOpen, kvClosed, kvEquity, kvDay, exPos, ticks, opens,
                 pc, locals, kvLast, lastOutput, calc>>

\* The clock counts minutes and a tick lasts seconds: a minute passes between
\* ticks, while a tick waits for the oracle (line 756), or between the read of
\* nowTs and the put of the sample (lines 1027-1033).
Advance ==
  /\ now + env.step <= env.clock
  /\ \A p \in Procs : pc[p] \in {"idle", "decide", "fin_put"}
  /\ now' = now + env.step
  /\ UNCHANGED <<env, desk, kv, exPos, counters, pc, locals>>

\* Every step of a tick but its start.
TickStep(p) ==
  \/ EnforceRead(p) \/ EnforceSym(p) \/ ClosePoll(p) \/ CloseOrder(p)
  \/ CloseFinal(p) \/ RecPut(p) \/ RecOpen(p)
  \/ Oracle(p) \/ StoreFault(p) \/ OrderCheck(p) \/ OrderSubmit(p)
  \/ TrackRead(p) \/ TrackClosedPut(p) \/ TrackOpenPut(p)
  \/ Finish(p) \/ Catch(p) \/ FinallyGet(p) \/ FinallyPut(p) \/ FinallyDay(p)
  \/ TickReturn(p)

Environment == Advance \/ Run \/ Stop

\* No tick is in flight: the HTTP trigger and the scheduler do not overlap.
NoneInFlight == \A q \in Procs : pc[q] = "idle"

\* Ticks one at a time.
Next ==
  \/ \E p \in Procs : NoneInFlight /\ TickStart(p)
  \/ \E p \in Procs : TickStep(p)
  \/ Environment

\* Ticks as the worker runs them: nothing keeps the two triggers apart.
NextOverlap ==
  \/ \E p \in Procs : TickStart(p)
  \/ \E p \in Procs : TickStep(p)

Spec == Init /\ [][Next]_vars

SpecOverlap == InitOverlap /\ [][NextOverlap]_vars

\* ------------------------------------------------ the status step alone
\* FLAT ticks over an empty ledger, minute by minute: what they log is their
\* status.  The summary is one of two texts, the equity moves by 0.3%.
StatusEnv ==
  [ticks |-> MaxFlatTicks, opens |-> 0, admins |-> 0,
   start |-> 1, clock |-> StatusClock, step |-> 1,
   prices |-> {}, equities |-> {1000, 1003}, plans |-> {},
   stores |-> {EmptyStore}, summaries |-> {"waiting", "steady"},
   bodies |-> RunBodies, adminKey |-> AdminKey, keys |-> {AdminKey}, deploy |-> FullDeploy, anchor |-> NoAnchor, slips |-> {0}]

InitStatus == Start(StatusEnv)

NextStatus ==
  \/ \E p \in Procs : FlatStatus(p)
  \/ Advance

SpecStatus == InitStatus /\ [][NextStatus]_vars

\* ---------------------------------------------- the admin handlers alone
\* Run and stop requests with the key, another key or no key, on a
\* deployment that sets ADMIN_KEY or does not.
AdminEnv ==
  [ticks |-> 0, opens |-> 0, admins |-> MaxRequests,
   start |-> 1, clock |-> MaxClock, step |-> ClockStep,
   prices |-> {}, equities |-> {}, plans |-> {},
   stores |-> {EmptyStore}, summaries |-> {},
   bodies |-> RunBodies, adminKey |-> AdminKey, keys |-> {"", AdminKey, WrongKey},
   deploy |-> FullDeploy, anchor |-> NoAnchor, slips |-> {0}]

InitAdmin == \E k \in {"", AdminKey} : Start([AdminEnv EXCEPT !.adminKey = k])

NextAdmin == Run \/ Stop \/ Advance

SpecAdmin == InitAdmin /\ [][NextAdmin]_vars

\* ------------------------------------------------ the computations alone
\* The readings of the account, in USD: an equity under zero, zero, small,
\* the spec's 1000, and one whose half is over the default cap.
CalcEquities == {-50, 0, 19, 41, 1000, 3001}
CalcBalances == {0, 100}
CalcCaps == {9, DefaultMaxRisk}
\* Quantities in base units: small ones, and those about 1 coin.
Quantities == (1..8) \cup (10000..10005)
Steps == {1, 2}
\* Order sizes, and the filters of a symbol: a step and a MIN_NOTIONAL or none.
CalcNotionals == {10, 20, 40, 45}
CalcInfos == {[step |-> st, minNotional |-> m] : st \in Steps, m \in {Absent, 30, 50}}

CalcEnv ==
  [ticks |-> 0, opens |-> 0, admins |-> 0,
   start |-> 1, clock |-> 1, step |-> ClockStep,
   prices |-> Prices, equities |-> CalcEquities, plans |-> {},
   stores |-> {EmptyStore}, summaries |-> {},
   bodies |-> RunBodies, adminKey |-> AdminKey, keys |-> {AdminKey}, deploy |-> FullDeploy, anchor |-> NoAnchor, slips |-> {0}]

InitCalc == Start(CalcEnv)

\* lines 582-587 and 772-773: the size of the order for an account reading
\* and a risk cap.
SizeStep ==
  /\ \E e \in env.equities, a \in CalcBalances, c \in CalcCaps :
       calc' = [fn |-> "sizeUsd", equityUsd |-> e, availableBalance |-> a,
                cap |-> c,
                out |-> SizeUsd([DefaultConfig EXCEPT !.maxRiskPerTradeUsd = c],
                                [NoAcct EXCEPT !.equityUsd = e,
                                               !.availableBalance = a])]
  /\ UNCHANGED <<env, now, kv, exPos, counters, pc, locals, kvLast, kvLogs,
                 lastOutput, resp>>

\* lines 699-700: a quantity is quantized, and the result once more.
QuantizeStep ==
  /\ \E q \in Quantities, st \in Steps :
       calc' = [fn |-> "quantize", q |-> q, step |-> st,
                once |-> Quantize(q, st),
                twice |-> Quantize(Quantize(q, st), st)]
  /\ UNCHANGED <<env, now, kv, exPos, counters, pc, locals, kvLast, kvLogs,
                 lastOutput, resp>>

\* lines 939-950: the quantity of an opening order.
OpenQtyStep ==
  /\ \E n \in CalcNotionals, price \in env.prices, info \in CalcInfos :
       calc' = [fn |-> "openQty", notional |-> n, price |-> price, info |-> info,
                out |-> OpenQty(n, price, info)]
  /\ UNCHANGED <<env, now, kv, exPos, counters, pc, locals, kvLast, kvLogs,
                 lastOutput, resp>>

NextCalc == SizeStep \/ QuantizeStep \/ OpenQtyStep

SpecCalc == InitCalc /\ [][NextCalc]_vars

\* ------------------------------------------------- the equity series alone
\* The last minute of the 28th UTC day after day 0.
LastMinute == 29 * DayMinutes - 1

\* A store after n ticks, one a minute up to LastMinute, that took an equity
\* of SeedEquity and opened nothing: the rolling list holds their samples,
\* and each day's list those of the day (lines 1028-1038).
SampledStore(n) ==
  LET first == LastMinute - n + 1
      run(a, b) == [NoSeries EXCEPT !.runFrom = a, !.runLen = b - a + 1,
                                    !.runEquity = SeedEquity]
  IN [EmptyStore EXCEPT
        !.kvRt = [NoRuntime EXCEPT !.lastTickAt = LastMinute],
        !.kvEquity = run(first, LastMinute),
        !.kvDay = [d \in DayKey(first)..DayKey(LastMinute) |->
                     run(Max(first, d * DayMinutes),
                         Min(LastMinute, d * DayMinutes + DayMinutes - 1))]]

\* Ticks around a UTC midnight on a rolling list that is full or nearly so;
\* the oracle fails or says FLAT, so no position is opened.
SampleEnv ==
  [ticks |-> MaxSamples, opens |-> 0, admins |-> 0,
   start |-> LastMinute, clock |-> LastMinute + 1, step |-> 1,
   prices |-> {SeedPrice}, equities |-> {0, SeedEquity, SeedEquity + 1},
   plans |-> {NoPlan, [NoPlan EXCEPT !.ok = TRUE, !.action = "FLAT"]},
   stores |-> {SampledStore(n) :
                 n \in (EquityCapacity - SampleSlack)..EquityCapacity},
   summaries |-> {}, bodies |-> RunBodies, adminKey |-> AdminKey, keys |-> {AdminKey},
   deploy |-> FullDeploy, anchor |-> NoAnchor, slips |-> {0}]

InitSample == Start(SampleEnv)

\* The steps of a tick that finds no open position and sends no order.
NextSample ==
  \/ \E p \in Procs : NoneInFlight /\ TickStart(p)
  \/ \E p \in Procs :
       \/ EnforceRead(p) \/ EnforceSym(p) \/ Oracle(p) \/ StoreFault(p)
       \/ OrderCheck(p) \/ Finish(p) \/ Catch(p)
       \/ FinallyGet(p) \/ FinallyPut(p) \/ FinallyDay(p) \/ TickReturn(p)
  \/ Advance

SpecSample == InitSample /\ [][NextSample]_vars

\* Two ticks at once on an empty store, a few minutes apart or in the same
\* minute; the oracle fails or says FLAT.
RaceEnv ==
  [SampleEnv EXCEPT !.ticks = MaxOverlap, !.start = 1, !.clock = MaxClock,
                    !.step = ClockStep, !.stores = {EmptyStore}]

InitRace == Start(RaceEnv)

\* The steps of NextSample with nothing that keeps the two triggers apart.
NextRace ==
  \/ \E p \in Procs : TickStart(p)
  \/ \E p \in Procs :
       \/ EnforceRead(p) \/ EnforceSym(p) \/ Oracle(p) \/ StoreFault(p)
       \/ OrderCheck(p) \/ Finish(p) \/ Catch(p)
       \/ FinallyGet(p) \/ FinallyPut(p) \/ FinallyDay(p) \/ TickReturn(p)
  \/ Advance

SpecRace == InitRace /\ [][NextRace]_vars

\* ------------------------------------------------------ the close loop
\* A store that holds one position of 2 units in the second symbol, entered
\* at 100: long with a stop at 95, or short with a stop at 105.
EntryPrice == 100
EntryQty == 2
HeldStore(side) ==
  LET sym == UniverseSeq[2]
  IN [EmptyStore EXCEPT
        !.kvRt = [NoRuntime EXCEPT !.lastTickAt = 1, !.lastOrderAt = 1,
                                   !.lastSignal = side],
        !.kvOpen = [EmptyMap EXCEPT ![sym] =
                      [NoTrade EXCEPT !.symbol = sym, !.side = side,
                         !.qty = EntryQty, !.entryPrice = EntryPrice,
                         !.notionalEntry = EntryPrice * EntryQty, !.openedAt = 1,
                         !.stopLoss = IF side = "LONG" THEN EntryPrice - 5
                                                       ELSE EntryPrice + 5]],
        !.exPos = [s \in Universe |->
                     IF s # sym THEN 0
                     ELSE IF side = "LONG" THEN EntryQty ELSE 0 - EntryQty],
        !.opens = 1]

\* One tick, minutes after the position was opened: the price is 6 past the
\* entry on either side, a fill is answered at the ticker's price or one
\* over it, and the oracle fails or answers no action the tick knows.
CloseEnv ==
  [SerialEnv EXCEPT !.prices = {EntryPrice - 6, EntryPrice + 6},
                    !.equities = {SeedEquity},
                    !.plans = {NoPlan, [NoPlan EXCEPT !.ok = TRUE]},
                    !.stores = {HeldStore("LONG"), HeldStore("SHORT")},
                    !.slips = {0, 1}]

InitClose == Start(CloseEnv)

\* The steps of a tick that sends no opening order.
NextClose ==
  \/ \E p \in Procs : NoneInFlight /\ TickStart(p)
  \/ \E p \in Procs :
       \/ EnforceRead(p) \/ EnforceSym(p) \/ ClosePoll(p) \/ CloseOrder(p)
       \/ CloseFinal(p) \/ RecPut(p) \/ RecOpen(p)
       \/ Oracle(p) \/ StoreFault(p) \/ OrderCheck(p) \/ Finish(p) \/ Catch(p)
       \/ FinallyGet(p) \/ FinallyPut(p) \/ FinallyDay(p) \/ TickReturn(p)
  \/ Advance

SpecClose == InitClose /\ [][NextClose]_vars

\* ------------------------------------------------------ the loss guard
\* The close loop's record of a long position of qty units entered at 100
\* and closed whole at the price px, at the minute at.
PastClose(at, qty, px) ==
  LET sym == UniverseSeq[1]
      t == [NoTrade EXCEPT !.symbol = sym, !.side = "LONG", !.qty = qty,
              !.entryPrice = EntryPrice, !.notionalEntry = EntryPrice * qty,
              !.openedAt = 1, !.stopLoss = EntryPrice - 5]
  IN LoopClosedTrade([NoClose EXCEPT !.sym = sym, !.t = t, !.price = px,
                        !.at = at, !.totalQtyClosed = qty,
                        !.sumNotionalExit = px * qty])

Lost(at, qty) == PastClose(at, qty, EntryPrice - 5)
Won(at) == PastClose(at, 1, EntryPrice + 5)
Times(n, trade) == [i \in 1..n |-> trade]

\* The ticks of the guard run at minute GuardNow or the minute after.
GuardNow == 40
MaxGuardTicks == 2

\* Closed lists around the guard's thresholds: four losses of 40 or of 35,
\* losses of 150 in all, three large losses, a loss at the window's edge or
\* a minute inside it, and four losses ten or six closes back.
GuardLists ==
  {Times(4, Lost(GuardNow - 1, 8)),
   Times(4, Lost(GuardNow - 1, 7)),
   Times(3, Lost(GuardNow - 1, 8)) \o <<Lost(GuardNow - 1, 6)>>,
   Times(3, Lost(GuardNow - 1, 20)),
   <<Lost(GuardNow - LossWindowMin, 8)>> \o Times(3, Lost(GuardNow - 1, 8)),
   <<Lost(GuardNow - LossWindowMin + 1, 8)>> \o Times(3, Lost(GuardNow - 1, 8)),
   Times(4, Lost(GuardNow - 1, 8)) \o Times(LossLookback, Won(GuardNow - 1)),
   Times(4, Lost(GuardNow - 1, 8)) \o Times(LossLookback - 4, Won(GuardNow - 1))}

GuardStore(list) ==
  [EmptyStore EXCEPT
     !.kvRt = [NoRuntime EXCEPT !.lastTickAt = GuardNow - 1, !.lastOrderAt = 1,
                                !.lastSignal = "LONG"],
     !.kvClosed = list]

\* Ticks after such closes; the oracle asks for a long position or fails.
GuardEnv ==
  [SerialEnv EXCEPT !.ticks = MaxGuardTicks, !.start = GuardNow, !.clock = GuardNow + 1, !.step = 1,
                    !.prices = {SeedPrice}, !.equities = {SeedEquity},
                    !.plans = {NoPlan,
                               [NoPlan EXCEPT !.ok = TRUE, !.action = "LONG",
                                              !.symbol = UniverseSeq[1]]},
                    !.stores = {GuardStore(l) : l \in GuardLists}]

InitGuard == Start(GuardEnv)

\* The steps of a tick that finds no open position.
NextGuard ==
  \/ \E p \in Procs : NoneInFlight /\ TickStart(p)
  \/ \E p \in Procs :
       \/ EnforceRead(p) \/ EnforceSym(p) \/ Oracle(p) \/ StoreFault(p)
       \/ OrderCheck(p) \/ OrderSubmit(p) \/ TrackRead(p) \/ TrackOpenPut(p)
       \/ Finish(p) \/ Catch(p)
       \/ FinallyGet(p) \/ FinallyPut(p) \/ FinallyDay(p) \/ TickReturn(p)
  \/ Advance

SpecGuard == InitGuard /\ [][NextGuard]_vars

\* ------------------------------------------------------ the equity read
\* The samples of a list, in list order.
SeriesSeq(l) == [i \in 1..SeriesLen(l) |-> SeriesAt(l, i)]

\* lines 2018-2031: the day lists from the anchor's UTC day to today's, those
\* that hold samples, one after the other.
RECURSIVE DayParts(_, _, _)
DayParts(days, d, last) ==
  IF d > last THEN <<>>
  ELSE (IF d \in DOMAIN days THEN SeriesSeq(days[d]) ELSE <<>>)
         \o DayParts(days, d + 1, last)

\* A filter that lets every point through.
FromAnchorAll(seq, anchorAt) == seq

\* line 2034: the points at or after the anchor.
FromAnchor(seq, anchorAt) ==
  LET atOrAfter(pt) == pt.at >= anchorAt
  IN SelectSeq(seq, atOrAfter)

\* line 2036: the anchor point is added when its value is positive and no
\* point of the union has its timestamp.
WithAnchor(seq, anchor) ==
  IF anchor.equityUsd > 0 /\ ~\E i \in 1..Len(seq) : seq[i].at = anchor.at
    THEN Append(seq, anchor) ELSE seq

\* lines 2037-2042: the first point of each timestamp, in the order of the
\* union.
RECURSIVE FirstByAt(_)
FirstByAt(seq) ==
  IF seq = <<>> THEN <<>>
  ELSE LET front == FirstByAt(SubSeq(seq, 1, Len(seq) - 1))
           pt == seq[Len(seq)]
       IN IF \E i \in 1..Len(front) : front[i].at = pt.at
            THEN front ELSE Append(front, pt)

\* line 2043: sorted by timestamp; the timestamps differ.
SortByAt(seq) ==
  LET pts == {seq[i] : i \in 1..Len(seq)}
  IN [k \in 1..Len(seq) |->
        CHOOSE x \in pts : Cardinality({y \in pts : y.at < x.at}) = k - 1]

\* GET /api/vibe/equity, lines 2009-2048.
EquityRead(anchor, rolling, days, at) ==
  IF anchor.at > 0
    THEN SortByAt(FirstByAt(WithAnchor(
           FromAnchor(DayParts(days, DayKey(anchor.at), DayKey(at))
                        \o SeriesSeq(rolling), anchor.at),
           anchor)))
    ELSE SeriesSeq(rolling)

\* The anchors an admin has pinned (handleSetAnchor, lines 1309-1314): at a
\* sample of the store, at the minutes after it, with a value or with 0, and
\* on a day before the store's first; or none.
Anchors ==
  {NoAnchor}
  \cup {[at |-> LastMinute + k, equityUsd |-> v] : k \in -1..2, v \in {0, 7}}
  \cup {[at |-> LastMinute - DayMinutes, equityUsd |-> 7]}

\* Two ticks that may overlap, around a UTC midnight, on a store that holds
\* two samples; and reads of the equity series.
ReadEnv ==
  [SampleEnv EXCEPT !.ticks = MaxOverlap, !.stores = {SampledStore(2)},
                    !.clock = LastMinute + 2,
                    !.equities = {SeedEquity, SeedEquity + 1}]

InitRead == \E a \in Anchors : Start([ReadEnv EXCEPT !.anchor = a])

\* The read handler answers.
EquityReadStep ==
  /\ calc' = [fn |-> "equityRead",
              out |-> EquityRead(env.anchor, kvEquity, kvDay, now)]
  /\ UNCHANGED <<env, now, kv, exPos, counters, pc, locals, kvLast, kvLogs,
                 lastOutput, resp>>

NextRead ==
  \/ \E p \in Procs : TickStart(p)
  \/ \E p \in Procs :
       \/ EnforceRead(p) \/ EnforceSym(p) \/ Oracle(p)
       \/ OrderCheck(p) \/ Finish(p)
       \/ FinallyGet(p) \/ FinallyPut(p) \/ FinallyDay(p) \/ TickReturn(p)
  \/ Advance
  \/ EquityReadStep

SpecRead == InitRead /\ [][NextRead]_vars

\* ------------------------------------------- deployments and their settings
\* One tick, minutes after a long position with a stop was opened, the price
\* under the stop, on a deployment with any of the four settings set or not;
\* and calls of the two request helpers on that deployment.
DeployEnv ==
  [ticks |-> MaxTicks, opens |-> MaxOpens, admins |-> 0,
   start |-> MaxClock, clock |-> MaxClock, step |-> ClockStep,
   prices |-> {SeedPrice - 1}, equities |-> {SeedEquity}, plans |-> OverlapPlans,
   stores |-> {OpenedStore(pl) : pl \in OverlapSeeds}, summaries |-> {},
   bodies |-> RunBodies, adminKey |-> AdminKey, keys |-> {AdminKey}, deploy |-> FullDeploy, anchor |-> NoAnchor, slips |-> {0}]

InitDeploy == \E d \in Deploys : Start([DeployEnv EXCEPT !.deploy = d])

\* asterRequest called on the deployment.
AsterRequestStep ==
  /\ calc' = [fn |-> "asterRequest", out |-> AsterRequest(env.deploy)]
  /\ UNCHANGED <<env, now, kv, exPos, counters, pc, locals, kvLast, kvLogs,
                 lastOutput, resp>>

\* asterFapiSignedPost called on the deployment.
SignedPostStep ==
  /\ calc' = [fn |-> "asterFapiSignedPost", out |-> SignedPost(env.deploy)]
  /\ UNCHANGED <<env, now, kv, exPos, counters, pc, locals, kvLast, kvLogs,
                 lastOutput, resp>>

NextDeploy ==
  \/ \E p \in Procs : NoneInFlight /\ TickStart(p)
  \/ \E p \in Procs : TickStep(p)
  \/ AsterRequestStep
  \/ SignedPostStep

SpecDeploy == InitDeploy /\ [][NextDeploy]_vars

\* ------------------------------------------------------------ properties
TrackPcs == {"track", "track_closed", "track_open"}

\* C1: whenever the enforcement pass has looked at a position with a stop
\* and a ticker price that breaches it (LONG: price <= stop, SHORT: price >=
\* stop), the iteration closes with the reason 'Stop-loss hit', whatever the
\* minimum hold and the take-profit level say.
StopLossCloses ==
  \A p \in Procs :
    (cur[p].sym # "none" /\ cur[p].price > 0 /\ StopLossHit(cur[p].t, cur[p].price))
      => cur[p].reason = "Stop-loss hit"

\* C1, its case: a close for the stop is under way although the minimum hold
\* has not elapsed and the target is breached as well.
StopLossClosesEarly ==
  \E p \in Procs :
    /\ pc[p] = "close_poll"
    /\ cur[p].reason = "Stop-loss hit"
    /\ ~MinHoldOk(cur[p].t, cur[p].at)
    /\ cur[p].t.takeProfit # Absent
    /\ \/ cur[p].t.side = "LONG" /\ cur[p].price >= cur[p].t.takeProfit
       \/ cur[p].t.side = "SHORT" /\ cur[p].price <= cur[p].t.takeProfit

\* No ClosedTrade of the position t is in the closed list.
NotClosed(sym, t) ==
  \A i \in 1..Len(kvClosed) :
    ~(kvClosed[i].symbol = sym /\ kvClosed[i].openedAt = t.openedAt)

\* C2: when the final position query of a close reports a nonzero position,
\* the iteration ends without a ClosedTrade and the stored open entry of the
\* symbol is the one the pass read.
NonFlatKeepsPosition ==
  \A p \in Procs :
    (cur[p].final = "listed" /\ cur[p].finalAmt # 0)
      => /\ pc[p] = "enforce"
         /\ kvOpen[cur[p].sym] = cur[p].t
         /\ NotClosed(cur[p].sym, cur[p].t)

\* C2, its case: all 8 attempts were made, some quantity was booked, and the
\* final query still reports a position.
NonFlatAfterAllAttempts ==
  \E p \in Procs :
    /\ cur[p].attempts = MaxAttempts
    /\ cur[p].totalQtyClosed > 0
    /\ cur[p].final = "listed" /\ cur[p].finalAmt # 0
    /\ pc[p] = "enforce"

\* C3: a close is recorded (the ClosedTrade appended, the open entry
\* deleted) only when the final position query answered with the symbol's
\* position; a query that threw or left the symbol out records nothing.
RecordedOnlyWhenReportedFlat ==
  \A p \in Procs :
    pc[p] \in {"rec_put", "rec_open"}
      => (cur[p].final = "listed" /\ cur[p].finalAmt = 0)

\* The sample of p's tick.
Sample(p) == [at |-> acct[p].nowTs, equityUsd |-> acct[p].equityUsd]

\* C4, one step: the put of the rolling list appends the tick's sample; the
\* list changes in no other step; a tick that is not skipped and took a
\* positive equity returns only after that put; and a tick comes to the
\* put once, from the finally block.
EquityStep ==
  /\ \A p \in Procs :
       /\ (pc[p] = "fin_put" /\ pc'[p] = "fin_day")
            => kvEquity' = SeriesPush(kvEquity, Sample(p))
       /\ (pc[p] # "done" /\ pc'[p] = "done" /\ result'[p] # "skipped"
           /\ acct[p].equityUsd > 0)
            => pc[p] = "fin_day"
       /\ (pc[p] # "fin_put" /\ pc'[p] = "fin_put") => pc[p] = "finally"
       /\ (pc[p] # "finally" /\ pc'[p] = "finally") => pc[p] \in {"finish", "catch"}
  /\ kvEquity' # kvEquity
       => \E p \in Procs : pc[p] = "fin_put" /\ pc'[p] = "fin_day"

OutsideUniverseSendsNoOrder ==
  \A p \in Procs :
    (plan[p].ok /\ plan[p].action \in {"LONG", "SHORT"}
     /\ plan[p].symbol \notin Universe)
      => (pc[p] \notin {"submit"} \cup TrackPcs /\ ~ord[p].sent)

\* The oracle call failed, or its answer carries no action of the three.
OracleUnusable(pl) == ~pl.ok \/ pl.action \notin {"LONG", "SHORT", "FLAT"}

\* C6: after an oracle call that threw or answered without a valid action
\* the selected action is FLAT and the tick carries no error; an opening
\* order is submitted only for a valid LONG or SHORT answer; and the error of
\* a tick is never the oracle's.
OracleFailureIsFlat ==
  /\ \A p \in Procs :
       /\ (pc[p] = "order" /\ OracleUnusable(plan[p]))
            => (SelectedAction(plan[p]) = "FLAT" /\ result[p] = "none")
       /\ pc[p] \in {"submit"} \cup TrackPcs
            => (plan[p].ok /\ plan[p].action \in {"LONG", "SHORT"})
       /\ result[p] \in {"none", "ok", "skipped", "store_fault"}
  /\ kvRt.lastError \in {"none", "store_fault"}

\* C6, its case: the oracle call threw and the tick goes on to the order step.
OracleThrewTickGoesOn ==
  \E p \in Procs : pc[p] = "order" /\ ~plan[p].ok /\ result[p] = "none"

\* C7: a tick that puts the open map puts the stored map with its own change:
\* the copy it holds at the put is the map in the store.
PutsOnFreshMap ==
  \A p \in Procs : pc[p] \in {"rec_open", "track_open"} => openMap[p] = kvOpen

\* C8: with no tick running, every accepted opening order is an entry of the
\* open map or exactly one ClosedTrade: no position is closed twice and none
\* leaves the map without a ClosedTrade.
OneClosePerPosition ==
  NoneInFlight
    => /\ opens = Len(kvClosed) + Cardinality(OpenSymbols(kvOpen))
       /\ \A i, j \in 1..Len(kvClosed) :
            (i # j /\ kvClosed[i].symbol = kvClosed[j].symbol)
              => kvClosed[i].openedAt # kvClosed[j].openedAt

\* C9: the notional of an opening order, quantity times price, is at most
\* the risk cap of the tick's configuration.
OrderWithinRiskCap ==
  \A p \in Procs :
    ord[p].symbol # "none"
      => ord[p].qty * ord[p].price <= tcfg[p].maxRiskPerTradeUsd

\* C10, one call: the new list is at most ClosedCapacity long; it is the old
\* list, without its first entry when that was full, followed by one entry.
ClosedListStep ==
  LET drop == Len(kvClosed) + 1 - Len(kvClosed')
  IN /\ Len(kvClosed') <= ClosedCapacity
     /\ drop \in {0, 1}
     /\ drop = 1 => Len(kvClosed) = ClosedCapacity
     /\ \A i \in 1..(Len(kvClosed') - 1) : kvClosed'[i] = kvClosed[i + drop]

\* C10: after any calls of appendClosedTrade the closed list has at most
\* ClosedCapacity entries; the entries that go are the oldest, at the front,
\* and the others keep their order.
ClosedListBounded == [][ticks' # ticks => ClosedListStep]_vars

\* C10, its case: calls were made on a full list, whose oldest entries went.
ClosedListEvicted ==
  /\ ticks >= 2
  /\ Len(kvClosed) = ClosedCapacity
  /\ kvClosed[1] = HistoricTrade(3)

\* C11: the stored open map holds, under each symbol, no entry or one entry
\* whose symbol field is that key; so do the copies the ticks hold.
OpenMapKeyedBySymbol ==
  /\ \A s \in Universe : kvOpen[s] # NoTrade => kvOpen[s].symbol = s
  /\ \A p \in Procs : \A s \in Universe :
       openMap[p][s] # NoTrade => openMap[p][s].symbol = s

\* C11, its case: an order for a symbol that had an entry was tracked; the
\* old entry is the newest ClosedTrade and the new one took its place.
OpenEntryReplaced ==
  \E s \in Universe :
    /\ kvOpen[s] # NoTrade /\ kvOpen[s].openedAt > 1
    /\ kvClosed # <<>>
    /\ kvClosed[Len(kvClosed)].symbol = s
    /\ kvClosed[Len(kvClosed)].closedAt = kvOpen[s].openedAt

\* The ticker price breaches the target of the position t.
TargetBreached(t, price) ==
  /\ t.takeProfit # Absent
  /\ \/ t.side = "LONG" /\ price >= t.takeProfit
     \/ t.side = "SHORT" /\ price <= t.takeProfit

\* C12: a close for the target happens only once the minimum hold has
\* elapsed (or the position has none); and while the hold has not elapsed and
\* neither the stop nor the hard loss cap is breached, the iteration ends
\* with no close: no reason, no attempt, the loop at its next symbol.
TakeProfitWaitsForHold ==
  \A p \in Procs :
    LET c == cur[p]
    IN /\ c.reason = "Take-profit hit" => MinHoldOk(c.t, c.at)
       /\ (c.sym # "none" /\ c.price > 0 /\ ~MinHoldOk(c.t, c.at)
           /\ ~StopLossHit(c.t, c.price) /\ ~MaxLossHit(tcfg[p], c.t, c.price))
            => (c.reason = "" /\ c.attempts = 0 /\ pc[p] = "enforce")

\* C12, its case: the price is through the target, the minimum hold has not
\* elapsed, and the iteration has left the position alone.
TargetBreachedTooEarly ==
  \E p \in Procs :
    /\ cur[p].sym # "none" /\ cur[p].price > 0
    /\ TargetBreached(cur[p].t, cur[p].price)
    /\ ~MinHoldOk(cur[p].t, cur[p].at)
    /\ cur[p].reason = "" /\ pc[p] = "enforce"

\* C13: whenever the enforcement pass has looked at a position with a ticker
\* price at which its unrealized PnL is at or under -|maxLossPerTradeUsd|,
\* the iteration closes it, whatever its minimum hold, stop and target.
HardLossCloses ==
  \A p \in Procs :
    (cur[p].sym # "none" /\ cur[p].price > 0
     /\ PnlNow(cur[p].t, cur[p].price) <= 0 - Abs(tcfg[p].maxLossPerTradeUsd))
      => cur[p].reason # ""

\* No position of the ledger, open or closed, whatever its symbol, was
\* opened in the CooldownMin minutes up to now.
NoRecentOrder ==
  /\ \A s \in Universe : kvOpen[s] # NoTrade => now - kvOpen[s].openedAt > CooldownMin
  /\ \A i \in 1..Len(kvClosed) : now - kvClosed[i].openedAt > CooldownMin

\* C14, one step: a tick comes to submit an opening order only when the
\* stored lastOrderAt is unset or more than 3 minutes old and the ledger has
\* no position opened in those minutes; the tick's lastOrderAt moves, to now,
\* in the step in which the exchange accepts the order and in no other; and
\* the stored lastOrderAt is the tick's when the tick comes to its end, and
\* it changes only to the time of an order accepted in that tick.
CooldownStep ==
  /\ \A p \in Procs :
       /\ (pc[p] # "submit" /\ pc'[p] = "submit")
            => (CoolOk(kvRt, now) /\ NoRecentOrder)
       /\ (pc[p] = "submit" /\ opens' # opens) => rt'[p].lastOrderAt = now
       /\ (pc[p] \notin {"idle", "done"} /\ rt'[p].lastOrderAt # rt[p].lastOrderAt)
            => (pc[p] = "submit" /\ opens' = opens + 1)
       /\ (pc[p] # "finally" /\ pc'[p] = "finally")
            => kvRt'.lastOrderAt = rt[p].lastOrderAt
  /\ kvRt'.lastOrderAt # kvRt.lastOrderAt
       => (kvRt'.lastOrderAt = now /\ opens > 0
           /\ \E p \in Procs : pc[p] \in {"finish", "catch"}
                                /\ rt[p].lastOrderAt = now)

SameStatus(a, b) ==
  /\ a.summary = b.summary /\ a.equityUsd = b.equityUsd
  /\ Variant(a.at) = Variant(b.at)

DeniedStep ==
  (admins' # admins /\ (env.adminKey = "" \/ resp'.key # env.adminKey))
    => /\ resp'.answer = [status |-> 403, ok |-> FALSE, error |-> "forbidden"]
       /\ cfg' = cfg /\ kvLogs' = kvLogs
       /\ UNCHANGED <<kvRt, kvOpen, kvClosed, kvEquity, kvDay, kvLast>>

\* C20: a run or stop request without the configured ADMIN_KEY is answered
\* with the fixed 403 'forbidden' and changes neither the stored
\* configuration nor the log list.
DeniedRequestNoEffect == [][DeniedStep]_vars

\* C20, its case: after a stop with the key, a request with another key was
\* refused: the status is still 'stopped' and the log has the one entry.
DeniedAfterStop ==
  /\ env.adminKey = AdminKey /\ resp.key = WrongKey
  /\ resp.answer = Forbidden
  /\ cfg.status = "stopped" /\ Len(kvLogs) = 1 /\ admins >= 2

\* floor(x * 0.50) for a whole number x of USD.
HalfFloor(x) == CHOOSE h \in -100..2000 : 2 * h <= x /\ x < 2 * h + 2

\* The size for the basis x and the cap c: half of x rounded down, at least
\* 0, at most c.
CappedHalf(x, c) ==
  LET target == IF HalfFloor(x) > 0 THEN HalfFloor(x) ELSE 0
  IN IF c <= target THEN c ELSE target

QuantizeIdempotent ==
  calc.fn = "quantize"
    => /\ calc.once > 0 /\ calc.once % calc.step = 0
       /\ calc.q >= calc.step => calc.once <= calc.q
       /\ calc.twice = calc.once

SmallOrderStep ==
  \A p \in Procs :
    /\ pc'[p] \in {"submit"} \cup TrackPcs => ord'[p].sizeUsd >= MinNotionalUsd
    /\ (pc[p] = "order" /\ pc'[p] # "order"
        /\ SelectedAction(plan[p]) \in {"LONG", "SHORT"}
        /\ SizeUsd(tcfg[p], acct[p]) < MinNotionalUsd)
         => /\ pc'[p] \in {"finish", "catch"}
            /\ ord'[p] = NoOrder \/ ~ord'[p].sent
            /\ UNCHANGED <<kvOpen, kvClosed, kvRt, exPos, opens>>
            /\ rt'[p].lastOrderAt = rt[p].lastOrderAt

\* C17: an opening order whose size is under 10 USD is never sent, and the
\* decision leaves the ledger and lastOrderAt unchanged.
SmallOrderNotSent == [][SmallOrderStep]_vars

\* C17, its case: under a risk cap of 9 USD a tick with an equity of 40 and
\* the cooldown over has passed its decision with no order: the stored
\* lastOrderAt and the count of accepted orders are those of the first order.
SmallOrderSkipped ==
  \E p \in Procs :
    /\ pc[p] = "finish" /\ result[p] = "none"
    /\ SizeUsd(tcfg[p], acct[p]) = 9 /\ CoolOk(rt[p], now)
    /\ kvRt.lastOrderAt = 1 /\ opens = 1 /\ rt[p].lastOrderAt = 1

\* Neither authentication scheme is configured: no wallet key, and not both
\* the API key and the API secret.
NoCredentials(d) == ~d.priv /\ ~(d.apiKey /\ d.apiSecret)

\* The ledger and the exchange position are those the tick started from.
LedgerUntouched ==
  /\ kvClosed = <<>> /\ opens = 1
  /\ \E pl \in OverlapSeeds :
       kvOpen = OpenedStore(pl).kvOpen /\ exPos = OpenedStore(pl).exPos

EquityWriteStep ==
  /\ \A p \in Procs :
       /\ (pc[p] = "fin_put" /\ pc'[p] # "fin_put")
            => LET drop == SeriesLen(kvEquity) + 1 - SeriesLen(kvEquity')
               IN /\ pc'[p] = "fin_day"
                  /\ SeriesLen(kvEquity') <= EquityCapacity
                  /\ SeriesLast(kvEquity') = Sample(p)
                  /\ drop \in {0, 1}
                  /\ drop = 1 => SeriesLen(kvEquity) = EquityCapacity
                  /\ kvEquity' = SeriesPush(SeriesDropFront(kvEquity, drop),
                                            Sample(p))
       /\ (pc[p] = "fin_day" /\ pc'[p] # "fin_day")
            => LET d == DayKey(Sample(p).at)
               IN /\ SeriesLast(kvEquity) = Sample(p)
                  /\ DOMAIN kvDay' = DOMAIN kvDay \cup {d}
                  /\ kvDay'[d] = SeriesPush(DayList(d), Sample(p))
                  /\ \A k \in DOMAIN kvDay \ {d} : kvDay'[k] = kvDay[k]
  /\ kvEquity' # kvEquity => \E p \in Procs : pc[p] = "fin_put"
  /\ kvDay' # kvDay => \E p \in Procs : pc[p] = "fin_day"

Monotone(l) ==
  \A i \in 1..(SeriesLen(l) - 1) : SeriesAt(l, i).at <= SeriesAt(l, i + 1).at

\* C23: in the rolling list and in every day list the timestamps of the
\* samples are non-decreasing in list order, whatever ticks have run, ticks
\* that overlap included.
TimestampsMonotone ==
  /\ Monotone(kvEquity)
  /\ \A d \in DOMAIN kvDay : Monotone(kvDay[d])

\* The points an equity read draws on: those of the day lists from the
\* anchor's UTC day on and those of the rolling list, at or after the anchor.
StoredFrom(anchor) ==
  {pt \in UNION {{SeriesAt(kvDay[d], i) : i \in 1..SeriesLen(kvDay[d])} :
                   d \in {x \in DOMAIN kvDay : x >= DayKey(anchor.at)}}
          \cup {SeriesAt(kvEquity, i) : i \in 1..SeriesLen(kvEquity)} :
     pt.at >= anchor.at}

AnchorOwed(anchor) ==
  anchor.equityUsd > 0 /\ ~\E pt \in StoredFrom(anchor) : pt.at = anchor.at

EquityReadAnswer(out) ==
  IF env.anchor.at > 0
    THEN /\ \A i \in 1..Len(out) - 1 : out[i].at < out[i + 1].at
         /\ \A i \in 1..Len(out) :
              \/ out[i] \in StoredFrom(env.anchor)
              \/ AnchorOwed(env.anchor) /\ out[i] = env.anchor
         /\ \A pt \in StoredFrom(env.anchor) :
              \E i \in 1..Len(out) : out[i].at = pt.at
         /\ AnchorOwed(env.anchor) =>
              \E i \in 1..Len(out) : out[i] = env.anchor
    ELSE out = SeriesSeq(kvEquity)

\* C24: with an anchor set, an equity read answers the points of the day
\* lists from the anchor's UTC day on and of the rolling list that are at or
\* after the anchor, one per timestamp, in ascending order of timestamp, with
\* the anchor point when its value is positive and no stored point has its
\* timestamp; with no anchor it answers the rolling list as stored.
EquityReadFromAnchor ==
  [][calc' # calc /\ calc'.fn = "equityRead" => EquityReadAnswer(calc'.out)]_vars

\* A read with the anchor one minute after midnight: the two samples before
\* it are left out, the anchor point comes first and a sample follows it.
ReadAcrossAnchor ==
  /\ calc.fn = "equityRead"
  /\ env.anchor = [at |-> LastMinute + 1, equityUsd |-> 7]
  /\ SeriesLen(kvEquity) >= 3
  /\ Len(calc.out) = 2
  /\ calc.out[1] = env.anchor
  /\ calc.out[2].at = LastMinute + 2
\* The close loop of p appends its record in this step.
LoopRecords(p) == pc[p] = "rec_put" /\ pc'[p] = "rec_open"

\* pnl is (exit - entry) * qty, the exit price being the fraction num / den.
PnlOver(r, gain) == r.pnlUsd * r.exitPrice.den = gain * r.qty

ClosePnlStep ==
  \A p \in Procs :
    LoopRecords(p) =>
      LET r == kvClosed'[Len(kvClosed')]
      IN /\ r.side = cur[p].t.side
         /\ r.entryPrice = cur[p].t.entryPrice
         /\ r.qty = cur[p].totalQtyClosed
         /\ r.exitPrice.den > 0
         /\ r.side = "LONG" =>
              PnlOver(r, r.exitPrice.num - r.entryPrice * r.exitPrice.den)
         /\ r.side = "SHORT" =>
              PnlOver(r, r.entryPrice * r.exitPrice.den - r.exitPrice.num)

\* C25: the ClosedTrade the close loop records has pnlUsd equal to
\* (exitPrice - entryPrice) * qty for a long position and to
\* (entryPrice - exitPrice) * qty for a short one, qty being the quantity
\* the loop closed; a long position entered at 100 and closed whole, 2
\* units at 94, is recorded with -12.
ClosePnlBySide == [][ClosePnlStep]_vars

\* The long position entered at 100 was closed by one order of 2 units at
\* 94: the record's pnlUsd is -12.
LongClosedAtLoss ==
  /\ Len(kvClosed) = 1
  /\ kvClosed[1].side = "LONG"
  /\ kvClosed[1].entryPrice = 100
  /\ kvClosed[1].qty = 2
  /\ kvClosed[1].exitPrice = [num |-> 188, den |-> 2]
  /\ kvClosed[1].pnlUsd = -12
\* What a step of p's close loop does to the totals: they start at 0, an
\* order the exchange accepted (its position moved) adds its quantity and
\* its quantity times the answered price, and every other step of the loop
\* leaves them.
CloseTotalsStep(p) ==
  LET c == cur[p]
      d == cur'[p]
  IN /\ pc[p] = "enforce" /\ pc'[p] = "close_poll" =>
          d.totalQtyClosed = 0 /\ d.sumNotionalExit = 0
     /\ pc[p] = "close_order" /\ exPos' # exPos =>
          /\ d.lastExitPrice \in FillPrices(env, c.price)
          /\ d.totalQtyClosed = c.totalQtyClosed + c.qty
          /\ d.sumNotionalExit = c.sumNotionalExit + d.lastExitPrice * c.qty
     /\ /\ pc[p] \in {"close_poll", "close_order", "close_final"}
        /\ pc'[p] \in {"close_poll", "close_order", "close_final", "rec_put"}
        /\ ~(pc[p] = "close_order" /\ exPos' # exPos)
        => /\ d.totalQtyClosed = c.totalQtyClosed
           /\ d.sumNotionalExit = c.sumNotionalExit
     /\ LoopRecords(p) =>
          LET r == kvClosed'[Len(kvClosed')]
          IN /\ r.exitPrice = [num |-> c.sumNotionalExit,
                               den |-> c.totalQtyClosed]
             /\ r.qty = c.totalQtyClosed

\* C26: the exit price of the close loop's ClosedTrade is the sum of
\* price times quantity over the reduce-only orders the exchange accepted,
\* divided by the sum of their quantities, which is the record's quantity;
\* an attempt the exchange refused adds nothing.
ExitPriceIsVwap == [][\A p \in Procs : CloseTotalsStep(p)]_vars

\* Two orders were accepted, 2 units at 94 and 1 unit at 95, and one was
\* refused between them: the record's exit price is 283 / 3.
VwapOverTwoFills ==
  \E p \in Procs :
    /\ pc[p] = "rec_open"
    /\ cur[p].attempts = 4
    /\ Len(kvClosed) = 1
    /\ kvClosed[1].exitPrice = [num |-> 283, den |-> 3]
    /\ kvClosed[1].qty = 3
\* The ClosedTrade r is the close of the position t.
ClosesPosition(r, t) ==
  /\ r.symbol = t.symbol /\ r.side = t.side /\ r.qty = t.qty
  /\ r.entryPrice = t.entryPrice /\ r.openedAt = t.openedAt

\* The tracking steps of p after its opening order was accepted.
FlipStep(p) ==
  LET sym == ord[p].symbol
      old == kvOpen[sym]
  IN /\ pc[p] = "track" /\ pc'[p] # "track" =>
          /\ UNCHANGED <<kvClosed, kvOpen>>
          /\ pc'[p] = IF old # NoTrade THEN "track_closed" ELSE "track_open"
     /\ pc[p] = "track_closed" /\ pc'[p] # "track_closed" =>
          /\ old # NoTrade
          /\ UNCHANGED kvOpen
          /\ Len(kvClosed') > 0
          /\ SubSeq(kvClosed', 1, Len(kvClosed') - 1)
               = SubSeq(kvClosed, Len(kvClosed) - Len(kvClosed') + 2, Len(kvClosed))
          /\ ClosesPosition(kvClosed'[Len(kvClosed')], old)
          /\ kvClosed'[Len(kvClosed')].exitPrice = [num |-> ord[p].price, den |-> 1]
          /\ pc'[p] = "track_open"
     /\ pc[p] = "track_open" /\ pc'[p] # "track_open" =>
          /\ UNCHANGED kvClosed
          /\ kvOpen'[sym].side = SelectedAction(plan[p])
          /\ kvOpen'[sym].qty = ord[p].qty
          /\ kvOpen'[sym].entryPrice = ord[p].price
          /\ kvOpen'[sym].openedAt = ord[p].at
          /\ \A s \in Universe \ {sym} : kvOpen'[s] = kvOpen[s]
          /\ old # NoTrade =>
               /\ Cardinality({i \in 1..Len(kvClosed) :
                                 ClosesPosition(kvClosed[i], old)}) = 1
               /\ ClosesPosition(kvClosed[Len(kvClosed)], old)

EnforcePcs == {"enforce_read", "enforce", "close_poll", "close_order",
               "close_final", "rec_put", "rec_open"}

\* p consults the oracle in this step.
Consults(p) == pc[p] = "decide" /\ pc'[p] # "decide"

PassThenOracleStep(p) ==
  /\ pc[p] = "idle" /\ pc'[p] \notin {"idle", "done"} => pc'[p] = "enforce_read"
  /\ pc[p] # "decide" /\ pc'[p] = "decide" => pc[p] \in EnforcePcs
  /\ pc[p] \in EnforcePcs =>
       /\ plan[p] = NoPlan /\ plan'[p] = NoPlan
       /\ pc'[p] \in EnforcePcs \cup {"decide"}
  /\ Consults(p) =>
       /\ todo[p] = {} /\ cur[p] = NoClose
       /\ UNCHANGED <<kvOpen, kvClosed, exPos>>

\* C28: in every tick that is not skipped the enforcement pass over the
\* open positions runs, start to end, before the oracle is consulted: no
\* step of the pass is taken with an answer of the oracle, and the oracle's
\* failure or unusable plan touches nothing the pass did.
EnforcementBeforeOracle == [][\A p \in Procs : PassThenOracleStep(p)]_vars

\* The pass closed the position and recorded it; the oracle then failed or
\* answered no action.
ExitThenOracleFailure ==
  \E p \in Procs :
    /\ pc[p] = "order"
    /\ SelectedAction(plan[p]) = "FLAT"
    /\ Len(kvClosed) = 1
    /\ kvOpen = EmptyMap
    /\ \A s \in Universe : exPos[s] = 0
\* The losing closes of the 30 minutes before at among the last 10 closes.
LateLosses(list, at) ==
  {i \in 1..Len(list) : /\ i > Len(list) - 10
                         /\ at - list[i].closedAt < 30
                         /\ list[i].pnlUsd < 0}

\* At least 4 of them, losing more than 150 in all.
LossStreak(list, at) ==
  /\ Cardinality(LateLosses(list, at)) >= 4
  /\ SumPnl(list, LateLosses(list, at)) < -150

\* The guards of the opening order other than the recent-loss guard.
OtherGuardsPass(p) ==
  /\ SelectedAction(plan[p]) \in {"LONG", "SHORT"}
  /\ env.deploy.apiSecret
  /\ CoolOk(rt[p], now)
  /\ SizeUsd(tcfg[p], acct[p]) >= 10

LossGuardStep ==
  \A p \in Procs :
    /\ pc[p] = "order" /\ pc'[p] = "submit" => ~LossStreak(kvClosed, now)
    /\ pc[p] = "order" /\ OtherGuardsPass(p) /\ ~LossStreak(kvClosed, now)
         => ENABLED (OrderCheck(p) /\ pc'[p] = "submit")

RuntimeStep(p) ==
  /\ pc[p] = "finish" /\ pc'[p] = "finally" =>
       /\ kvRt'.lastError = "none" /\ kvRt'.lastTickAt = now
       /\ kvRt'.lastOrderAt = rt[p].lastOrderAt
       /\ kvRt'.lastSignal = rt[p].lastSignal
       /\ result'[p] = "ok"
  /\ pc[p] = "catch" /\ pc'[p] # "catch" =>
       /\ result[p] \notin {"none", "ok"}
       /\ kvRt'.lastError = result[p] /\ kvRt'.lastTickAt = now
       /\ kvRt'.lastOrderAt = rt[p].lastOrderAt
       /\ kvRt'.lastSignal = rt[p].lastSignal
       /\ result'[p] = result[p]
  /\ pc[p] # "catch" /\ pc'[p] = "catch" => pc[p] \in {"order", "finish"}
  /\ pc[p] \in EnforcePcs \cup {"decide", "submit", "track", "track_closed",
                                  "track_open"}
       => result'[p] = "none" /\ kvRt' = kvRt
  /\ pc[p] = "idle" /\ pc'[p] # "idle" => rt'[p] = kvRt
  /\ pc[p] \notin {"idle", "submit", "done"} =>
       /\ rt'[p].lastOrderAt = rt[p].lastOrderAt
       /\ rt'[p].lastSignal = rt[p].lastSignal
  /\ pc[p] = "submit" /\ pc'[p] # "track" =>
       /\ rt'[p].lastOrderAt = rt[p].lastOrderAt
       /\ rt'[p].lastSignal = rt[p].lastSignal

OlderClosedCapacity == 200
OlderAppendClosed(list, trade) ==
  LET l == Append(list, trade)
  IN IF Len(l) > OlderClosedCapacity
       THEN SubSeq(l, Len(l) - OlderClosedCapacity + 1, Len(l))
       ELSE l

\* part_003, lines 885-890: the older rolling list holds 1440 samples.
OlderEquityCapacity == 1440
OlderAppendEquity(list, sample) ==
  LET l == SeriesPush(list, sample)
  IN IF SeriesLen(l) > OlderEquityCapacity
       THEN SeriesDropFront(l, SeriesLen(l) - OlderEquityCapacity)
       ELSE l

\* part_003, lines 614 and 618-633: both levels are looked at only once the
\* minimum hold has elapsed, the target before the stop.
OlderCloseReason(t, price, at) ==
  LET minHoldOk == IF t.minHoldMs # Absent THEN at - t.openedAt >= t.minHoldMs
                                           ELSE TRUE
      target == /\ t.takeProfit # Absent
                /\ \/ t.side = "LONG" /\ price >= t.takeProfit
                   \/ t.side = "SHORT" /\ price <= t.takeProfit
      stop == /\ t.stopLoss # Absent
              /\ \/ t.side = "LONG" /\ price <= t.stopLoss
                 \/ t.side = "SHORT" /\ price >= t.stopLoss
  IN IF ~minHoldOk THEN ""
     ELSE IF target THEN "Take-profit hit"
     ELSE IF stop THEN "Stop-loss hit"
     ELSE ""

\* part_003, lines 639-655: the older ClosedTrade, priced at the ticker.
OlderClosedTrade(sym, t, price, at) ==
  [symbol |-> sym, side |-> t.side, qty |-> t.qty,
   entryPrice |-> t.entryPrice,
   exitPrice |-> [num |-> price, den |-> 1],
   notionalEntry |-> t.notionalEntry,
   notionalExit |-> Abs(t.qty * price),
   openedAt |-> t.openedAt, closedAt |-> at,
   holdingMs |-> Max(0, at - t.openedAt),
   pnlUsd |-> IF t.side = "LONG" THEN (price - t.entryPrice) * t.qty
                                 ELSE (t.entryPrice - price) * t.qty]

\* part_003, lines 545-563 and 608-610: the older tick reads the
\* configuration and the runtime record, returns when stopped, takes the
\* account snapshot and reads the open map for its pass.
OlderTickStart(p) ==
  /\ pc[p] = "idle"
  /\ ticks < env.ticks
  /\ ticks' = ticks + 1
  /\ tcfg' = [tcfg EXCEPT ![p] = cfg]
  /\ rt' = [rt EXCEPT ![p] = kvRt]
  /\ IF cfg.status # "running" /\ ~IgnoreStatus(p)
       THEN /\ pc' = [pc EXCEPT ![p] = "done"]
            /\ result' = [result EXCEPT ![p] = "skipped"]
            /\ UNCHANGED <<acct, openMap, todo>>
       ELSE /\ pc' = [pc EXCEPT ![p] = "older_enforce"]
            /\ result' = [result EXCEPT ![p] = "none"]
            /\ \E e \in AccountEquities(env) :
                 acct' = [acct EXCEPT ![p] = [NoAcct EXCEPT !.equityUsd = e,
                                                     !.availableBalance = e]]
            /\ \/ /\ openMap' = [openMap EXCEPT ![p] = kvOpen]
                  /\ todo' = [todo EXCEPT ![p] = OpenSymbols(kvOpen)]
               \/ UNCHANGED <<openMap, todo>>
  /\ UNCHANGED <<env, desk, now, kv, exPos, opens, admins, cur, plan, ord, clist, elist>>

\* part_003, lines 611-662: one iteration of the older pass, or its end.
\* The ticker answers a price or nothing usable (0), or a request throws and
\* the catch of line 662 ends the pass.  A close is one reduce-only order of
\* the ledger's quantity; when the exchange accepts it the ClosedTrade is
\* appended and the entry deleted.
OlderEnforceSym(p) ==
  /\ pc[p] = "older_enforce"
  /\ \/ /\ pc' = [pc EXCEPT ![p] = "older_decide"]
        /\ todo' = [todo EXCEPT ![p] = {}]
        /\ UNCHANGED <<cur, openMap, kvOpen, kvClosed, exPos>>
     \/ \E sym \in todo[p], price \in PublicPrices(env) :
          LET t == openMap[p][sym]
              reason == IF price = 0 THEN "" ELSE OlderCloseReason(t, price, now)
              side == IF t.side = "LONG" THEN "SELL" ELSE "BUY"
              c == [NoClose EXCEPT !.sym = sym, !.t = t, !.price = price,
                                   !.at = now, !.reason = reason]
              sent == [c EXCEPT !.side = side, !.qty = t.qty, !.attempts = 1]
          IN /\ pc' = pc
             /\ todo' = [todo EXCEPT ![p] = todo[p] \ {sym}]
             /\ IF reason = ""
                  THEN /\ cur' = [cur EXCEPT ![p] = c]
                       /\ UNCHANGED <<openMap, kvOpen, kvClosed, exPos>>
                  ELSE \/ /\ cur' = [cur EXCEPT ![p] = sent]
                          /\ UNCHANGED <<openMap, kvOpen, kvClosed, exPos>>
                       \/ /\ SignedPost(env.deploy) = "sent"
                          /\ Reducible(exPos[sym], side, t.qty) > 0
                          /\ \E fill \in Fills(Reducible(exPos[sym], side, t.qty)) :
                               exPos' = [exPos EXCEPT ![sym] =
                                           IF side = "SELL" THEN @ - fill ELSE @ + fill]
                          /\ cur' = [cur EXCEPT ![p] = [sent EXCEPT !.totalQtyClosed = t.qty]]
                          /\ kvClosed' = OlderAppendClosed(kvClosed,
                                           OlderClosedTrade(sym, t, price, now))
                          /\ openMap' = [openMap EXCEPT ![p][sym] = NoTrade]
                          /\ kvOpen' = openMap'[p]
  /\ UNCHANGED <<env, desk, now, cfg, kvRt, kvEquity, kvDay, counters, tcfg, rt, acct,
                 plan, ord, clist, elist, result>>

\* part_003, lines 664-906, for an oracle that fails or answers no action
\* but FLAT: a failed call is not caught near the call and the tick ends in
\* the catch of line 900 with the error in the runtime record; otherwise the
\* equity is sampled (lines 885-890) and the record written without an error.
OlderDecide(p) ==
  /\ pc[p] = "older_decide"
  /\ \E pl \in env.plans :
       /\ SelectedAction(pl) = "FLAT"
       /\ plan' = [plan EXCEPT ![p] = pl]
       /\ IF pl.ok
            THEN /\ kvEquity' = OlderAppendEquity(kvEquity,
                                  [at |-> now, equityUsd |-> acct[p].equityUsd])
                 /\ kvRt' = [rt[p] EXCEPT !.lastTickAt = now, !.lastError = "none"]
                 /\ result' = [result EXCEPT ![p] = "ok"]
            ELSE /\ kvRt' = [rt[p] EXCEPT !.lastTickAt = now,
                                          !.lastError = "LLM call failed"]
                 /\ result' = [result EXCEPT ![p] = "LLM call failed"]
                 /\ UNCHANGED kvEquity
  /\ pc' = [pc EXCEPT ![p] = "done"]
  /\ UNCHANGED <<env, desk, now, cfg, kvOpen, kvClosed, kvDay, exPos, counters,
                 rt, acct, tcfg, openMap, todo, cur, ord, clist, elist>>

\* A store that holds one position of 2 units entered at 100 at minute 1,
\* with a stop 5 away on the losing side, with or without a target at the
\* same level, and with or without a minimum hold of 2 minutes.
OlderHeldStore(side, target, hold) ==
  LET sym == UniverseSeq[2]
      held == HeldStore(side)
  IN [held EXCEPT !.kvOpen[sym].takeProfit =
                     IF target THEN held.kvOpen[sym].stopLoss ELSE Absent,
                  !.kvOpen[sym].minHoldMs = IF hold THEN 2 ELSE Absent]

\* Ticks of the older worker one at a time, in the minute of the opening and
\* 4 minutes later: the price is 6 past the entry on either side, and the
\* oracle fails or answers no action the tick knows.
OlderEnv ==
  [CloseEnv EXCEPT !.ticks = 2,
                   !.stores = {OlderHeldStore(side, target, hold) :
                                 side \in {"LONG", "SHORT"},
                                 target \in BOOLEAN, hold \in BOOLEAN}]

InitOlder == Start(OlderEnv)

OlderAdvance ==
  /\ now + env.step <= env.clock
  /\ \A p \in Procs : pc[p] \in {"idle", "older_decide"}
  /\ now' = now + env.step
  /\ UNCHANGED <<env, desk, kv, exPos, counters, pc, locals>>

NextOlder ==
  \/ \E p \in Procs : NoneInFlight /\ OlderTickStart(p)
  \/ \E p \in Procs : OlderEnforceSym(p) \/ OlderDecide(p) \/ TickReturn(p)
  \/ OlderAdvance

SpecOlder == InitOlder /\ [][NextOlder]_vars

\* C31: in the older worker, whenever the pass has looked at a position with
\* a ticker price that breaches its stop (LONG: price <= stop, SHORT: price
\* >= stop), the iteration sends the close, whatever the minimum hold and
\* the target say.
OlderStopLossCloses ==
  \A p \in Procs :
    (pc[p] \in {"older_enforce", "older_decide"} /\ cur[p].sym # "none"
       /\ cur[p].price > 0 /\ StopLossHit(cur[p].t, cur[p].price))
      => cur[p].reason # ""

\* ------------------------------------------ the close loop's termination
\* The steps of the close loop of one symbol: its polls, its orders and the
\* final query.
CloseLoopStep(p) == ClosePoll(p) \/ CloseOrder(p) \/ CloseFinal(p)

\* A request a tick awaits is answered or throws: a tick inside the close
\* loop takes its next step.
SpecCloseFair == SpecClose /\ \A p \in Procs : WF_vars(CloseLoopStep(p))

LoopPcs == {"close_poll", "close_order"}

\* p's step in or out of the close loop: a poll counts an attempt below 8
\* and sends an order only for a nonzero reported position; an order is one
\* of at most 8 and is followed by a poll only below 8 attempts; the final
\* query is made once, and only it leads to the record.
LoopStep(p) ==
  /\ pc[p] = "close_poll" /\ pc'[p] # "close_poll" =>
       /\ cur[p].attempts < MaxAttempts
       /\ pc'[p] \in {"close_order", "close_final", "decide"}
       /\ pc'[p] # "decide" => cur'[p].attempts = cur[p].attempts + 1
       /\ exPos[cur[p].sym] = 0 => pc'[p] # "close_order"
  /\ pc[p] = "close_order" /\ pc'[p] # "close_order" =>
       /\ cur[p].attempts \in 1..MaxAttempts
       /\ pc'[p] \in {"close_poll", "close_final", "decide"}
       /\ pc'[p] # "decide" => cur'[p].attempts = cur[p].attempts
       /\ pc'[p] = "close_poll" => cur[p].attempts < MaxAttempts
  /\ pc[p] = "close_final" /\ pc'[p] # "close_final" =>
       /\ cur[p].final = "none"
       /\ cur'[p].final # "none"
       /\ pc'[p] \in {"rec_put", "enforce"}
  /\ pc'[p] = "rec_put" /\ pc[p] # "rec_put" => pc[p] = "close_final"

\* C32: the close loop of a symbol ends: every poll counts one of at most 8
\* attempts, so at most 8 reduce-only orders are sent; a poll that finds the
\* exchange at zero sends no order and ends the loop; the loop once left,
\* one final query is made, and the close is recorded only after it.
CloseLoopTerminates ==
  /\ [][\A p \in Procs : LoopStep(p)]_vars
  /\ \A p \in Procs : (pc[p] \in LoopPcs) ~> (pc[p] \notin LoopPcs)

\* C32, its case: the eighth order was sent with the exchange still holding
\* a position, and the final query is due.
EightOrdersThenFinal ==
  \E p \in Procs :
    /\ pc[p] = "close_final"
    /\ cur[p].attempts = MaxAttempts
    /\ cur[p].qty > 0
    /\ exPos[cur[p].sym] # 0

\* ------------------------------------------------ the close loop's orders
\* p's step towards an order of the close loop: the order is drawn up from
\* the positionAmt the poll read, and what the exchange does with it reduces
\* the position it holds without turning it over.
CloseOrderStep(p) ==
  LET amt == exPos[cur[p].sym]
  IN /\ pc[p] = "close_poll" /\ pc'[p] = "close_order" =>
          /\ amt # 0
          /\ cur'[p].side = "SELL" <=> amt > 0
          /\ cur'[p].side = "BUY" <=> amt < 0
          /\ cur'[p].qty = Max(1, FloorQuot(Abs(amt), cur[p].step)) * cur[p].step
     /\ pc[p] = "close_order" /\ pc'[p] # "close_order" =>
          /\ cur[p].side = "SELL" => exPos'[cur[p].sym] \in 0..amt
          /\ cur[p].side = "BUY" => exPos'[cur[p].sym] \in amt..0
          /\ Abs(amt - exPos'[cur[p].sym]) <= cur[p].qty
     /\ pc[p] \in EnforcePcs \ {"close_order"} /\ pc'[p] # pc[p] => exPos' = exPos

\* C33: an order of the close path sells exactly when the exchange reported
\* a positive positionAmt and buys exactly when it reported a negative one,
\* its quantity is the reported size rounded to the step (whatever the
\* ledger holds), it only reduces the position, and no order is drawn up for
\* a reported zero.
CloseOrdersFollowExchange == [][\A p \in Procs : CloseOrderStep(p)]_vars

\* C33, its case: an order is due for the 1 unit the exchange still holds
\* of a position the ledger has at 2 units.
OrderForRemainder ==
  \E p \in Procs :
    /\ pc[p] = "close_order"
    /\ cur[p].t.qty = EntryQty
    /\ Abs(exPos[cur[p].sym]) = EntryQty - 1
    /\ cur[p].qty = EntryQty - 1

\* ------------------------------------------- the decision step's writes
DecisionPcs == {"decide", "order", "submit"}

\* p's step of the decision: up to the exchange's answer nothing of the
\* ledger or of the order stamp moves; the tracking is entered only from an
\* accepted order, which stamps lastOrderAt and lastSignal; a rejected or
\* failed order leaves the map, the list and the stamp as they are; the
\* tracking appends the replaced position's ClosedTrade and puts the new
\* OpenPosition.
DecisionStep(p) ==
  /\ pc[p] \in DecisionPcs /\ pc'[p] # pc[p] =>
       /\ kvOpen' = kvOpen
       /\ kvClosed' = kvClosed
       /\ pc'[p] \in TrackPcs =>
            /\ pc[p] = "submit"
            /\ ord'[p].ok
            /\ rt'[p].lastOrderAt = ord[p].at
            /\ rt'[p].lastSignal = SelectedAction(plan[p])
       /\ pc'[p] \notin TrackPcs =>
            /\ rt'[p].lastOrderAt = rt[p].lastOrderAt
            /\ rt'[p].lastSignal = rt[p].lastSignal
  /\ pc[p] \in TrackPcs /\ pc'[p] # pc[p] =>
       /\ ord[p].ok
       /\ kvClosed' # kvClosed =>
            /\ pc[p] = "track_closed"
            /\ kvClosed' = Append(kvClosed, kvClosed'[Len(kvClosed')])
            /\ kvClosed'[Len(kvClosed')].symbol = ord[p].symbol
            /\ kvClosed'[Len(kvClosed')].openedAt = kvOpen[ord[p].symbol].openedAt
       /\ kvOpen' # kvOpen =>
            /\ pc[p] = "track_open"
            /\ kvOpen'[ord[p].symbol].openedAt = ord[p].at
            /\ \A s \in Universe \ {ord[p].symbol} : kvOpen'[s] = kvOpen[s]
       /\ rt'[p] = rt[p]

\* C34: the decision step puts an OpenPosition, appends a flip ClosedTrade
\* and stamps lastOrderAt and lastSignal only after the exchange accepted
\* the opening order; when the order is rejected or the request fails, the
\* open map, the closed list, lastOrderAt and lastSignal stay as they were.
DecisionWritesOnlyWhenAccepted == [][\A p \in Procs : DecisionStep(p)]_vars

\* C34, its case: an accepted order replaced a position; the flip's
\* ClosedTrade is the list's last entry, the map holds the new position and
\* the tick holds the new stamp, later than the stored one.
AcceptedOrderReplaced ==
  \E p \in Procs :
    /\ pc[p] = "finish"
    /\ rt[p].lastOrderAt > kvRt.lastOrderAt
    /\ Len(kvClosed) > 0
    /\ kvClosed[Len(kvClosed)].closedAt = rt[p].lastOrderAt
    /\ \E s \in Universe : /\ kvOpen[s].openedAt = rt[p].lastOrderAt
                           /\ kvClosed[Len(kvClosed)].symbol = s

\* ------------------------------------- a ledger entry the exchange lost
\* HeldStore with the exchange flat: the position was closed on the
\* exchange by something other than the worker (a liquidation, a manual
\* close), and the ledger still holds it.  The ticks start from such a
\* store or from HeldStore itself.
StaleStore(side) ==
  [HeldStore(side) EXCEPT !.exPos = [s \in Universe |-> 0]]

\* Ticks without end over such a store: the price is 6 past the entry on
\* either side, the account request fails (the equity reads 0, so no sample
\* is taken), and the oracle fails or answers no action the tick knows.
StaleEnv ==
  [CloseEnv EXCEPT !.equities = {0},
                   !.stores = {StaleStore("LONG"), StaleStore("SHORT"),
                               HeldStore("LONG"), HeldStore("SHORT")}]

InitStale == Start(StaleEnv)

\* The scheduler fires again (wrangler's cron trigger, every minute): the
\* count of the ticks starts over.
Again ==
  /\ NoneInFlight
  /\ ticks = env.ticks
  /\ ticks' = 0
  /\ UNCHANGED <<env, desk, now, kv, exPos, opens, admins, pc, locals>>

NextStale ==
  \/ \E p \in Procs : NoneInFlight /\ TickStart(p)
  \/ \E p \in Procs :
       \/ EnforceRead(p) \/ EnforceSym(p) \/ ClosePoll(p) \/ CloseOrder(p)
       \/ CloseFinal(p) \/ RecPut(p) \/ RecOpen(p)
       \/ Oracle(p) \/ StoreFault(p) \/ OrderCheck(p) \/ Finish(p) \/ Catch(p)
       \/ FinallyGet(p) \/ TickReturn(p)
  \/ Advance
  \/ Again

\* A tick that can take a step takes one, and the scheduler goes on firing.
SpecStale == InitStale /\ [][NextStale]_vars /\ WF_vars(NextStale)

\* The ledger's entry in the second symbol.
StaleSym == UniverseSeq[2]

\* Whenever a pass has read a price for the entry, a close condition held.
CloseConditionHolds ==
  \A p \in Procs : cur[p].sym = StaleSym => cur[p].reason # ""

\* A pass went through the close loop for the entry and its final query
\* found the exchange flat.
FoundFlat ==
  \E p \in Procs :
    /\ pc[p] = "enforce"
    /\ cur[p].sym = StaleSym
    /\ cur[p].reason # ""
    /\ cur[p].final # "none"
    /\ cur[p].finalAmt = 0

\* C35: when a close condition holds at every pass over the entry, the
\* exchange reports no position for its symbol, and passes go on finding
\* this, the entry is eventually deleted from the open map.
StaleEntryEventuallyDeleted ==
  ([]CloseConditionHolds /\ [](exPos[StaleSym] = 0) /\ []<>FoundFlat)
    => <>(kvOpen[StaleSym] = NoTrade)

\* ------------------------------------- the trade backfill (1778-1899)
ServerError == [status |-> 500, ok |-> FALSE, error |-> "error"]

\* A fill of /fapi/v1/userTrades as lines 1798-1805 read it.
Fill(time, price, qty, isBuy) ==
  [time |-> time, price |-> price, qty |-> qty, isBuy |-> isBuy]

\* lines 1819-1822: the running position of one symbol, no fill read yet.
NoRun == [netQty |-> 0, side |-> "none", entryQty |-> 0, entryNotional |-> 0,
          openedAt |-> 0, exitQty |-> 0, exitNotional |-> 0, lastTime |-> 0,
          closed |-> <<>>]

\* flushClose, lines 1824-1846.  The quotients entryNotional / entryQty and
\* pnl are whole for the fills of BackfillFills; exitPrice is kept as the
\* fraction exitNotional / exitQty.
FlushClose(st, sym) ==
  LET qty == Min(st.entryQty, st.exitQty)
      entryPrice == st.entryNotional \div st.entryQty
      s == IF st.side = "none" THEN "LONG" ELSE st.side
      from == IF st.openedAt # 0 THEN st.openedAt ELSE st.lastTime
      ct == [symbol |-> sym, side |-> s, qty |-> qty,
             entryPrice |-> entryPrice,
             exitPrice |-> [num |-> st.exitNotional, den |-> st.exitQty],
             notionalEntry |-> st.entryNotional,
             notionalExit |-> st.exitNotional,
             openedAt |-> from, closedAt |-> st.lastTime,
             holdingMs |-> Max(0, st.lastTime - from),
             pnlUsd |-> IF s = "LONG"
                          THEN (st.exitNotional * qty) \div st.exitQty - entryPrice * qty
                          ELSE entryPrice * qty - (st.exitNotional * qty) \div st.exitQty]
  IN [NoRun EXCEPT !.lastTime = st.lastTime,
                   !.closed = IF st.entryQty > 0 /\ st.exitQty > 0
                                THEN Append(st.closed, ct) ELSE st.closed]

\* lines 1848-1880: one fill.  A fill on the position's side adds to the
\* entry; one against it adds to the exit, and the position is flushed when
\* it nets to zero or turns over (flushClose has then set netQty to 0 before
\* the remainder is read from it, lines 1871-1876).
TakeFill(st, sym, f) ==
  LET sgn == IF f.isBuy THEN 1 ELSE -1
      side == IF st.side = "none" THEN (IF sgn > 0 THEN "LONG" ELSE "SHORT")
                                  ELSE st.side
      continues == (side = "LONG" /\ sgn > 0) \/ (side = "SHORT" /\ sgn < 0)
      net == st.netQty + sgn * f.qty
      at == [st EXCEPT !.lastTime = f.time, !.side = side]
      out == [at EXCEPT !.exitQty = @ + f.qty,
                        !.exitNotional = @ + f.price * f.qty,
                        !.netQty = net]
  IN IF continues
       THEN [at EXCEPT !.openedAt = IF st.entryQty = 0 THEN f.time ELSE @,
                       !.entryQty = @ + f.qty,
                       !.entryNotional = @ + f.price * f.qty,
                       !.netQty = net]
     ELSE IF net = 0 THEN FlushClose(out, sym)
     ELSE IF (side = "LONG" /\ net < 0) \/ (side = "SHORT" /\ net > 0)
       THEN [FlushClose(out, sym) EXCEPT !.side = "SHORT", !.openedAt = f.time]
     ELSE out

\* lines 1818-1881: the closed positions of one symbol's fills, in the order
\* of the fills.
RECURSIVE TakeFills(_, _, _, _)
TakeFills(st, sym, fills, i) ==
  IF i > Len(fills) THEN st.closed
  ELSE TakeFills(TakeFill(st, sym, fills[i]), sym, fills, i + 1)

\* The key of line 1886 (and 1889).
TradeKey(t) == <<t.symbol, t.openedAt, t.closedAt, t.qty>>

\* lines 1887-1891: the stored list, then every rebuilt trade whose key was
\* not seen yet.
RECURSIVE MergeNew(_, _, _)
MergeNew(merged, closed, i) ==
  IF i > Len(closed) THEN merged
  ELSE IF \E j \in 1..Len(merged) : TradeKey(merged[j]) = TradeKey(closed[i])
    THEN MergeNew(merged, closed, i + 1)
    ELSE MergeNew(Append(merged, closed[i]), closed, i + 1)

\* line 1892: Array.prototype.sort by closedAt, which is stable: an entry
\* comes after the entries that close earlier and after the earlier entries
\* that close at the same time.
SortByClosedAt(seq) ==
  IF \A i \in 1..(Len(seq) - 1) : seq[i].closedAt <= seq[i + 1].closedAt
    THEN seq
    ELSE LET n == Len(seq)
             pos == [i \in 1..n |->
                       1 + Cardinality({j \in 1..n :
                             \/ seq[j].closedAt < seq[i].closedAt
                             \/ seq[j].closedAt = seq[i].closedAt /\ j < i})]
         IN [k \in 1..n |-> seq[CHOOSE i \in 1..n : pos[i] = k]]

\* lines 1884-1893: the list the handler puts.
BackfillList(existing, closed) ==
  SortByClosedAt(MergeNew(existing, closed, 1))

\* What /fapi/v1/userTrades answers for the first symbol, at the minute at
\* (nothing for the other symbols): nothing; a unit bought a minute ago and
\* sold now; two units bought and then sold in two fills; a unit bought and
\* sold and another bought and sold, the second within this minute; a unit
\* bought and two sold.
BackfillFills(at) ==
  {<<>>,
   <<Fill(at - 1, SeedPrice, 1, TRUE), Fill(at, SeedPrice + 1, 1, FALSE)>>,
   <<Fill(at - 1, SeedPrice, 2, TRUE), Fill(at, SeedPrice + 1, 1, FALSE),
     Fill(at, SeedPrice - 1, 1, FALSE)>>,
   <<Fill(at - 1, SeedPrice, 1, TRUE), Fill(at, SeedPrice + 1, 1, FALSE),
     Fill(at, SeedPrice, 1, TRUE), Fill(at, SeedPrice - 1, 1, FALSE)>>,
   <<Fill(at - 1, SeedPrice, 1, TRUE), Fill(at, SeedPrice + 1, 2, FALSE)>>}

\* handleVibeBackfillTrades: the key check, the fills of the universe's
\* symbols, the rebuilt closes, and the merged list put under
\* /vibe_trades.json.  A failing request answers 500 and writes nothing.
BackfillTrades ==
  /\ admins < env.admins
  /\ admins' = admins + 1
  /\ \E key \in env.keys :
       IF Authorized(env.adminKey, key)
         THEN \/ /\ resp' = [key |-> key, body |-> NoBody, answer |-> ServerError]
                 /\ UNCHANGED kvClosed
              \/ \E fills \in BackfillFills(now) :
                   /\ kvClosed' = BackfillList(kvClosed,
                                    TakeFills(NoRun, UniverseSeq[1], fills, 1))
                   /\ resp' = [key |-> key, body |-> NoBody, answer |-> Accepted]
         ELSE /\ resp' = [key |-> key, body |-> NoBody, answer |-> Forbidden]
              /\ UNCHANGED kvClosed
  /\ UNCHANGED <<env, now, cfg, kvRt, kvOpen, kvEquity, kvDay, exPos, ticks, opens,
                 pc, locals, kvLast, kvLogs, lastOutput, calc>>

\* A call of appendClosedTrade and calls of the backfill, with the admin key
\* or another one, on lists that are full or nearly so.
MaxBackfills == 2
BackfillEnv ==
  [LedgerEnv EXCEPT !.ticks = 1, !.admins = MaxBackfills,
                    !.prices = {SeedPrice}, !.keys = {AdminKey, WrongKey}]

InitBackfill == Start(BackfillEnv)

NextBackfill == AppendClosedTrade \/ BackfillTrades

SpecBackfill == InitBackfill /\ [][NextBackfill]_vars

\* C36: whoever wrote it (the tick's close, the flip, an admin close, the
\* manual append, the backfill), the closed-trade list holds at most
\* ClosedCapacity entries.
ClosedListWithinCapacity == Len(kvClosed) <= ClosedCapacity

\* ------------------------------------------------- ticks while stopped
\* p's step changes nothing of the exchange's positions, of the open map
\* or of the closed list.
TradesNothing ==
  /\ exPos' = exPos
  /\ kvOpen' = kvOpen
  /\ kvClosed' = kvClosed

\* C37: a tick that read the status 'stopped', were it started by the HTTP
\* trigger or by the scheduler, has no order accepted by the exchange and
\* writes neither the open map nor the closed list.
StoppedTicksTradeNothing ==
  [][\A p \in Procs :
       (tcfg[p].status = "stopped" /\ pc[p] # "idle" /\ pc'[p] # pc[p])
         => TradesNothing]_vars

\* ------------------------------------------- the configuration's frame
\* Run and stop requests with the key or another one; a run carries no
\* body, the margin mode 'isolated', or the caps of RunBodies.
ConfigEnv ==
  [AdminEnv EXCEPT !.keys = {AdminKey, WrongKey},
                   !.bodies = {NoBody, [NoBody EXCEPT !.marginMode = "isolated"]}
                                \cup RunBodies]

InitConfig == Start(ConfigEnv)

SpecConfig == InitConfig /\ [][NextAdmin]_vars

\* An admin request's step: every field of the configuration but the status
\* that the body read by the handler does not carry is as it was (stop reads
\* no body), and a carried field has the body's value.
ConfigStep ==
  admins' # admins =>
    /\ resp'.body.maxRiskPerTradeUsd = Absent
         => cfg'.maxRiskPerTradeUsd = cfg.maxRiskPerTradeUsd
    /\ resp'.body.maxLossPerTradeUsd = Absent
         => cfg'.maxLossPerTradeUsd = cfg.maxLossPerTradeUsd
    /\ resp'.body.marginMode = "none" => cfg'.marginMode = cfg.marginMode
    /\ resp'.body.maxRiskPerTradeUsd # Absent
         => cfg'.maxRiskPerTradeUsd = resp'.body.maxRiskPerTradeUsd
    /\ resp'.body.maxLossPerTradeUsd # Absent
         => cfg'.maxLossPerTradeUsd = resp'.body.maxLossPerTradeUsd
    /\ resp'.body.marginMode # "none" => cfg'.marginMode = resp'.body.marginMode

\* C38: stop changes only the status of the stored configuration, and run
\* only the status and the fields its body carries; a run without a body
\* changes nothing but the status.
ConfigFieldsKept == [][ConfigStep]_vars

\* ------------------------------------------- the ledger and the exchange
\* C39: when a tick has had its opening order accepted and tracked (the
\* exchange nets the order into its position and fills it in full), the
\* ledger's entry for the order's symbol has the side of the exchange's
\* position and its absolute size as quantity, also when the symbol had an
\* entry before.
LedgerMatchesExchange ==
  \A p \in Procs : \A s \in Universe :
    (/\ pc[p] = "finish"
     /\ rt[p].lastOrderAt > kvRt.lastOrderAt
     /\ kvOpen[s] # NoTrade
     /\ kvOpen[s].openedAt = rt[p].lastOrderAt)
      => /\ kvOpen[s].side = "LONG" <=> exPos[s] > 0
         /\ kvOpen[s].side = "SHORT" <=> exPos[s] < 0
         /\ kvOpen[s].qty = Abs(exPos[s])

\* ------------------------------------------ the cooldown under overlap
\* The order stamps a state knows of besides p's own: the stored one and
\* those the other ticks hold.
OtherStamps(p) ==
  {kvRt.lastOrderAt} \cup {rt[q].lastOrderAt : q \in Procs \ {p}}

\* p's opening order is accepted in this step: no other order was accepted
\* within the cooldown before it.
AcceptStep(p) ==
  (pc[p] = "submit" /\ pc'[p] = "track")
    => \A t \in OtherStamps(p) : t # 0 => ord[p].at - t > CooldownMin

\* C40: also when ticks overlap, an opening order is accepted only when no
\* other was within the 3 minutes before it, and a write of the runtime
\* record never puts an older or absent lastOrderAt in the place of a later
\* one.
CooldownHoldsUnderOverlap ==
  [][/\ \A p \in Procs : AcceptStep(p)
     /\ kvRt'.lastOrderAt >= kvRt.lastOrderAt]_vars
====
